---- MODULE Spec2Model ----
(***************************************************************************)
(* A model of dircord, a relay between Discord ("Platform A") and IRC      *)
(* ("Platform B").                                                         *)
(*                                                                         *)
(*   discord_irc.rs   StrChunks, create_prefix, Handler (A -> B)           *)
(*   irc_discord.rs   irc_loop, msg_task, QueuedMessage (B -> A)           *)
(*                                                                         *)
(* Text is a Rust str: a sequence of bytes that is valid UTF-8.  Lengths   *)
(* are byte lengths, as str::len is.                                       *)
(***************************************************************************)
EXTENDS Integers, Sequences, FiniteSets, TLC

VARIABLES
    \* ---- StrChunks (discord_irc.rs:25-64)
    line,       \* the str the iterator was created over
    size,       \* StrChunks.size
    v,          \* StrChunks.v, the text not yet yielded
    chunks,     \* the items next() has returned so far, in order
    it_pc,      \* "iter": next() may be called; "done": next() returned None
    \* ---- create_prefix (discord_irc.rs:66-88)
    nick,       \* the code points of the display name create_prefix is given
    pfx,        \* <<>> before the call, then <<what create_prefix returned>>
    \* ---- Handler::message (discord_irc.rs:94-197)
    ref_content_limit,  \* RefContentLimitKey: <<>> (None) or <<limit>>
    hmsg,       \* <<>> before the event, then <<the message event handled>>
    hout,       \* how the handler ended and what it computed on the way
    sent,       \* the PRIVMSG payloads the handler gave to the sender, in order
    \* ---- main (main.rs:470-476)
    proc,       \* "running", "notice" (posting the shutdown notice), "exited"
    exit_err,   \* whether main returned an error
    noticed,    \* the Platform-A channels the shutdown notice was posted to
    \* ---- irc_loop (irc_discord.rs:37-231)
    loop_pc,    \* "read" (at stream.next()), "fetch", "edit" (awaiting Platform A),
                \* "ok", "err" (returned), "dropped" (its future was dropped)
    ev,         \* <<>> or <<the event the loop is in the middle of>>
    nread,      \* the number of events read
    queue,      \* the unbounded channel of line 46
    next_id,    \* the position in the order of sends of the next message
    net,        \* the calls to Platform A that have not answered yet
    channel_users,  \* line 52
    meta,       \* channels_cache, guild are Some, emoji_cache is not empty
    avatar_cache,   \* line 49
    id_cache,   \* line 50
    members,    \* the Roster
    \* ---- msg_task (irc_discord.rs:370-406)
    task_pc,    \* "recv" (at recv.next()), "send" (awaiting its call), "ok", "err"
    cur,        \* <<>> or <<the message whose call is awaited>>
    hist,       \* what the consumer did, in order: start, done, fail, drop of an id
    \* ---- the Roster handlers and the readers of the Roster
    \*      (discord_irc.rs:138, 206-244; irc_discord.rs:126)
    roster_lock,    \* the Mutex around the Roster: <<>> or <<the task that holds it>>
    tasks,      \* the tasks spawned so far, each with its kind, argument and position
    \* ---- discord_to_irc_processing (discord_irc.rs:247-391)
    d2i_in,     \* the content it is given
    d2i_out,    \* <<>> before the call, then <<how it ended and what it returned>>
    \* ---- irc_to_discord_processing (irc_discord.rs:233-351)
    i2d_in,     \* the message it is given
    i2d_out     \* <<>> before the call, then <<what it returned>>

vars == <<line, size, v, chunks, it_pc, nick, pfx, ref_content_limit, hmsg, hout, sent,
          proc, exit_err, noticed, loop_pc, ev, nread, queue, next_id, net, channel_users,
          meta, avatar_cache, id_cache, members, task_pc, cur, hist, roster_lock, tasks,
          d2i_in, d2i_out, i2d_in, i2d_out>>

chunkVars == <<line, size, v, chunks, it_pc>>
prefixVars == <<nick, pfx>>
handlerVars == <<ref_content_limit, hmsg, hout, sent>>
rosterVars == <<roster_lock, tasks>>
transVars == <<d2i_in, d2i_out, i2d_in, i2d_out>>

(***************************************************************************)
(* Bounds of the model.                                                    *)
(***************************************************************************)
MaxLen == 3        \* code points in a line given to StrChunks
MaxSize == 4       \* largest byte budget given to StrChunks
MaxNameLen == 3    \* code points in a display name given to create_prefix

\* One code point of each UTF-8 width: a, e-acute, euro sign, grinning face.
Chars == {97, 233, 8364, 128512}

(***************************************************************************)
(* UTF-8, the representation of str.                                       *)
(***************************************************************************)
EncodeChar(c) ==
    IF c < 128 THEN <<c>>
    ELSE IF c < 2048 THEN <<192 + (c \div 64), 128 + (c % 64)>>
    ELSE IF c < 65536
        THEN <<224 + (c \div 4096), 128 + ((c \div 64) % 64), 128 + (c % 64)>>
    ELSE <<240 + (c \div 262144), 128 + ((c \div 4096) % 64),
           128 + ((c \div 64) % 64), 128 + (c % 64)>>

\* (Both halves are encoded and joined, so that a long text does not nest
\* the evaluation as deep as it is long.)
RECURSIVE Utf8(_)
Utf8(cps) ==
    IF cps = <<>> THEN <<>>
    ELSE IF Len(cps) = 1 THEN EncodeChar(cps[1])
    ELSE LET mid == Len(cps) \div 2
         IN  Utf8(SubSeq(cps, 1, mid)) \o Utf8(SubSeq(cps, mid + 1, Len(cps)))

\* A continuation byte is 10xxxxxx.
IsContinuation(b) == b >= 128 /\ b < 192

\* str::is_char_boundary
is_char_boundary(s, i) ==
    \/ i = 0
    \/ i = Len(s)
    \/ i > 0 /\ i < Len(s) /\ ~IsContinuation(s[i + 1])

\* The byte width a leading byte announces.
LeadWidth(b) == IF b < 128 THEN 1 ELSE IF b < 224 THEN 2 ELSE IF b < 240 THEN 3 ELSE 4

\* The code point of the first char of a non-empty str (chars().next()).
FirstChar(s) ==
    LET b == s[1] IN
    IF b < 128 THEN b
    ELSE IF b < 224 THEN (b - 192) * 64 + (s[2] - 128)
    ELSE IF b < 240 THEN (b - 224) * 4096 + (s[2] - 128) * 64 + (s[3] - 128)
    ELSE (b - 240) * 262144 + (s[2] - 128) * 4096 + (s[3] - 128) * 64 + (s[4] - 128)

\* All sequences over S of length 0..n.
SeqsUpTo(S, n) == UNION {[1..k -> S] : k \in 0..n}

RECURSIVE Concat(_)
Concat(ss) ==
    IF ss = <<>> THEN <<>>
    ELSE IF Len(ss) = 1 THEN ss[1]
    ELSE LET mid == Len(ss) \div 2
         IN  Concat(SubSeq(ss, 1, mid)) \o Concat(SubSeq(ss, mid + 1, Len(ss)))

(***************************************************************************)
(* StrChunks::next                                                         *)
(***************************************************************************)
\* A plausible slip: the cut is made at the budget without looking for a
\* boundary.
BackoffNone(s, offset) == offset

\* The loop of lines 45-52: the largest offset' <= offset at which
\* s.get(..offset') is Some.
RECURSIVE Backoff(_, _)
Backoff(s, offset) ==
    IF is_char_boundary(s, offset) THEN offset ELSE Backoff(s, offset - 1)

\* One call of next() on an iterator whose fields are (s, sz): whether it
\* returns Some, the item, and the new value of the field v.
StrChunks_next(s, sz) ==
    IF s = <<>> THEN [some |-> FALSE, res |-> <<>>, v |-> s]
    ELSE IF Len(s) < sz THEN [some |-> TRUE, res |-> s, v |-> <<>>]
    ELSE LET offset == Backoff(s, sz)
         IN  [some |-> TRUE, res |-> SubSeq(s, 1, offset),
              v |-> SubSeq(s, offset + 1, Len(s))]

(***************************************************************************)
(* create_prefix                                                           *)
(***************************************************************************)
Str_reply == <<40, 114, 101, 112, 108, 121, 41, 32>>                 \* "(reply) "
Str_reply_to == <<40, 114, 101, 112, 108, 121, 32, 116, 111, 41, 32>> \* "(reply to) "
Zwsp == <<226, 128, 139>>                                            \* U+200B

LineCeiling == 400

\* A plausible slip, the one of main.rs:61: the first char is narrowed to
\* a byte before it is added.
colour_index_u8(s) == ((FirstChar(s) % 256) + Len(s)) % 12

\* Line 74.
colour_index(s) == (FirstChar(s) + Len(s)) % 12

\* format!("{:02}", n) for n < 100.
Fmt02(n) == <<48 + (n \div 10), 48 + (n % 10)>>

\* create_prefix(msg, is_reply, http), given the outcome of msg.member():
\* fetched says whether it was Ok, s is then the display name.
create_prefix(fetched, s, is_reply) ==
    IF ~fetched
        THEN [ok |-> TRUE, prefix |-> Str_reply, limit |-> LineCeiling - Len(Str_reply)]
    ELSE IF s = <<>> \/ LeadWidth(s[1]) >= Len(s)
        THEN [ok |-> FALSE, prefix |-> <<>>, limit |-> 0]   \* unwrap() on None
    ELSE LET second_char_offset == LeadWidth(s[1])
             prefix == (IF is_reply THEN Str_reply_to ELSE <<>>)
                       \o <<60, 3>> \o Fmt02(colour_index(s))
                       \o SubSeq(s, 1, second_char_offset) \o Zwsp
                       \o SubSeq(s, second_char_offset + 1, Len(s))
                       \o <<15, 62, 32>>
         IN  [ok |-> TRUE, prefix |-> prefix, limit |-> LineCeiling - Len(prefix)]

(***************************************************************************)
(* The str operations Handler::message uses.                               *)
(***************************************************************************)
Rep(c, n) == [i \in 1..n |-> c]

Whitespace == {9, 10, 11, 12, 13, 32}

\* The first index in lo..hi of s whose byte is not in S (hi + 1 if none).
RECURSIVE FirstNotIn(_, _, _, _)
FirstNotIn(s, lo, hi, S) ==
    IF lo > hi THEN hi + 1
    ELSE IF lo = hi THEN (IF s[lo] \notin S THEN lo ELSE hi + 1)
    ELSE LET mid == (lo + hi) \div 2
             l == FirstNotIn(s, lo, mid, S)
         IN  IF l <= mid THEN l ELSE FirstNotIn(s, mid + 1, hi, S)

\* The last index in lo..hi of s whose byte is not in S (lo - 1 if none).
RECURSIVE LastNotIn(_, _, _, _)
LastNotIn(s, lo, hi, S) ==
    IF lo > hi THEN lo - 1
    ELSE IF lo = hi THEN (IF s[lo] \notin S THEN lo ELSE lo - 1)
    ELSE LET mid == (lo + hi) \div 2
             r == LastNotIn(s, mid + 1, hi, S)
         IN  IF r > mid THEN r ELSE LastNotIn(s, lo, mid, S)

SkipFwd(s, i, S) == FirstNotIn(s, i, Len(s), S)
SkipBack(s, i, S) == LastNotIn(s, 1, i, S)

\* str::trim_matches for a set of one-byte chars, and str::trim.
TrimSet(s, S) ==
    LET a == SkipFwd(s, 1, S) IN
    IF a > Len(s) THEN <<>> ELSE SubSeq(s, a, SkipBack(s, Len(s), S))

trim_matches_0f(s) == TrimSet(s, {15})
trim(s) == TrimSet(s, Whitespace)

starts_with(s, p) == Len(s) >= Len(p) /\ SubSeq(s, 1, Len(p)) = p

\* str::lines: the text between line feeds, a carriage return before a
\* line feed dropped with it, no last line after a final line feed.
RECURSIVE LinesFrom(_, _)
LinesFrom(s, start) ==
    IF start > Len(s) THEN <<>>
    ELSE LET e == SkipFwd(s, start, (0..255) \ {10})
             raw == SubSeq(s, start, e - 1)
             l == IF e <= Len(s) /\ raw # <<>> /\ raw[Len(raw)] = 13
                     THEN SubSeq(raw, 1, Len(raw) - 1) ELSE raw
         IN  <<l>> \o LinesFrom(s, e + 1)

lines(s) == LinesFrom(s, 1)

\* The number of chars of a str, and the byte length of its first n chars.
CharCount(s) == Cardinality({i \in 1..Len(s) : ~IsContinuation(s[i])})

CharsIn(s, lo, hi) == Cardinality({i \in lo..hi : ~IsContinuation(s[i])})

\* The index in lo..hi of the n-th leading byte of s there, n >= 1.
RECURSIVE NthLead(_, _, _, _)
NthLead(s, lo, hi, n) ==
    IF lo >= hi THEN lo
    ELSE LET mid == (lo + hi) \div 2
             c == CharsIn(s, lo, mid)
         IN  IF n <= c THEN NthLead(s, lo, mid, n) ELSE NthLead(s, mid + 1, hi, n - c)

\* The byte length of the first n chars of s, n <= CharCount(s).
CharOffset(s, n) == IF n >= CharCount(s) THEN Len(s) ELSE NthLead(s, 1, Len(s), n + 1) - 1

Ellipsis == <<46, 46, 46>>   \* "..."

\* Ellipse::truncate_ellipse of the ellipse crate, as called at line 161:
\* a str of at most len graphemes is returned whole, otherwise its first
\* len graphemes followed by "...".  A grapheme is taken to be one char.
truncate_ellipse(s, len) ==
    IF CharCount(s) <= len THEN s
    ELSE IF len = 0 THEN <<>>
    ELSE SubSeq(s, 1, CharOffset(s, len)) \o Ellipsis

\* for chunk in StrChunks::new(s, sz): the items, in order.  The iterator
\* of a line that never ends is cut after Len(s) + 1 items.
RECURSIVE ChunksFuel(_, _, _)
ChunksFuel(s, sz, fuel) ==
    IF fuel = 0 THEN <<>>
    ELSE LET r == StrChunks_next(s, sz)
         IN  IF r.some THEN <<r.res>> \o ChunksFuel(r.v, sz, fuel - 1) ELSE <<>>

StrChunks_all(s, sz) == ChunksFuel(s, sz, Len(s) + 1)

(***************************************************************************)
(* Handler::message                                                        *)
(***************************************************************************)
raw_prefix == <<43, 43>>   \* "++", the default of line 109

\* The reply line of lines 149-170: what create_prefix gave for the
\* replied-to message, the limit handed to truncate_ellipse, and the text
\* it returned.  r.content is the replied-to content after lines 153-159.
ReplyOut(r) ==
    LET rp == create_prefix(r.fetched, r.nick, TRUE)
        lim == IF ref_content_limit # <<>> THEN ref_content_limit[1] ELSE rp.limit
    IN  [ok |-> rp.ok, reply_prefix |-> rp.prefix,
         reply_content_limit |-> rp.limit, limit |-> lim,
         content |-> r.content,
         to_send |-> IF rp.ok THEN truncate_ellipse(r.content, lim) ELSE <<>>]

\* A plausible slip: the last line first.
RECURSIVE ChunkLinesReversed(_, _, _)
ChunkLinesReversed(ls, prefix, content_limit) ==
    IF ls = <<>> THEN <<>>
    ELSE LET cs == StrChunks_all(Head(ls), content_limit)
         IN  ChunkLinesReversed(Tail(ls), prefix, content_limit)
             \o [i \in 1..Len(cs) |-> prefix \o trim_matches_0f(cs[i])]

\* Lines 173-190: the two raw-passthrough lines, or prefix + chunk for
\* every chunk of every line.
RECURSIVE ChunkLines(_, _, _)
ChunkLines(ls, prefix, content_limit) ==
    IF ls = <<>> THEN <<>>
    ELSE LET cs == StrChunks_all(Head(ls), content_limit)
         IN  [i \in 1..Len(cs) |-> prefix \o trim_matches_0f(cs[i])]
             \o ChunkLines(Tail(ls), prefix, content_limit)

BodyLines(computed, prefix, content_limit) ==
    IF starts_with(computed, raw_prefix)
       /\ trim(SubSeq(computed, Len(raw_prefix) + 1, Len(computed))) # <<>>
        THEN LET stripped == trim(SubSeq(computed, Len(raw_prefix) + 1, Len(computed)))
             IN  <<prefix, trim_matches_0f(stripped)>>
    ELSE ChunkLines(lines(computed), prefix, content_limit)

\* Line 102: the id of the relay's own account, which ready stored.
user_id == 1

\* A plausible slip: the messages of bots and webhooks are not skipped.
SkipsAuthorSelfOnly(uid, author) == uid = author.id

\* Lines 113-115.
SkipsAuthor(uid, author) == uid = author.id \/ author.bot

\* The whole handler on the event m.  m.computed is the content after
\* discord_to_irc_processing (line 140), m.reply is <<>> or <<r>> for a
\* message_reference whose message was fetched (line 149).
HandlerMessage(m) ==
    LET p == create_prefix(m.fetched, m.nick, FALSE)
        none == [end |-> "returned", prefix |-> <<>>, content_limit |-> 0,
                 reply |-> <<>>, lines |-> <<>>]
    IN  IF m.kind \notin {"Regular", "InlineReply"} THEN none
        ELSE IF SkipsAuthor(user_id, m.author) THEN none
        ELSE IF ~p.ok THEN [none EXCEPT !.end = "panicked"]
        ELSE IF ~m.mapped THEN [none EXCEPT !.prefix = p.prefix,
                                            !.content_limit = p.limit]
        ELSE LET ro == IF m.reply = <<>> THEN <<>> ELSE <<ReplyOut(m.reply[1])>>
             IN  IF ro # <<>> /\ ~ro[1].ok
                     THEN [end |-> "panicked", prefix |-> p.prefix,
                           content_limit |-> p.limit, reply |-> ro, lines |-> <<>>]
                 ELSE [end |-> "done", prefix |-> p.prefix,
                       content_limit |-> p.limit, reply |-> ro,
                       lines |->
                           (IF ro = <<>> THEN <<>>
                            ELSE <<ro[1].reply_prefix \o ro[1].to_send>>)
                           \o BodyLines(m.computed, p.prefix, p.limit)
                           \o [i \in 1..Len(m.attachments) |->
                                   p.prefix \o m.attachments[i]]]

(***************************************************************************)
(* irc_discord.rs: irc_to_discord_processing                               *)
(***************************************************************************)
Str_joined == <<42, 32, 104, 97, 115, 32, 106, 111, 105, 110, 101, 100, 32, 116, 104, 101, 32, 99, 104, 97, 110, 110, 101, 108>>   \* "* has joined the channel"
Str_has_quit == <<42, 32, 104, 97, 115, 32, 113, 117, 105, 116, 32, 40>>   \* "* has quit ("
Str_known == <<42, 32, 105, 115, 32, 110, 111, 119, 32, 107, 110, 111, 119, 110, 32, 97, 115, 32, 42>>   \* "* is now known as *"
Str_conn_closed == <<67, 111, 110, 110, 101, 99, 116, 105, 111, 110, 32, 99, 108, 111, 115, 101, 100>>   \* "Connection closed"
Str_action == <<1, 65, 67, 84, 73, 79, 78, 32>>   \* "\x01ACTION "
Str_gt_comma == <<62, 44, 32>>   \* ">, "

IsDigit(b) == b \in 48..57

\* CONTROL_CHAR_RE (line 270) tried at index i of s: the length of its
\* match there, 0 if it does not match.
ControlMatch(s, i) ==
    IF s[i] \in {31, 2, 18, 15, 22} THEN 1
    ELSE IF s[i] # 3 THEN 0
    ELSE LET d(k) == i + k <= Len(s) /\ IsDigit(s[i + k])
             n1 == IF d(1) THEN (IF d(2) THEN 2 ELSE 1) ELSE 0
             c == n1 > 0 /\ i + n1 + 1 <= Len(s) /\ s[i + n1 + 1] = 44 /\ d(n1 + 2)
             n2 == IF c THEN (IF d(n1 + 3) THEN 2 ELSE 1) ELSE 0
         IN  1 + n1 + (IF c THEN 1 + n2 ELSE 0)

\* CONTROL_CHAR_RE.replace_all(s, "") from index i on (line 347).
RECURSIVE StripControl(_, _)
StripControl(s, i) ==
    IF i > Len(s) THEN <<>>
    ELSE IF ControlMatch(s, i) = 0 THEN <<s[i]>> \o StripControl(s, i + 1)
    ELSE StripControl(s, i + ControlMatch(s, i))

\* A plausible slip: what is open at the end of the line is left open.
ForceCloseNone(has_opened_bold, has_opened_italic) == <<>>

\* Lines 339-345: what is pushed after the last char.
ForceClose(has_opened_bold, has_opened_italic) ==
    (IF has_opened_italic THEN <<<<42>>>> ELSE <<>>)
    \o (IF has_opened_bold THEN <<<<42, 42>>>> ELSE <<>>)

\* The loop of lines 327-345 from index i on, with the two flags: what is
\* pushed to new, push by push.
RECURSIVE TogglePieces(_, _, _, _)
TogglePieces(s, i, has_opened_bold, has_opened_italic) ==
    IF i > Len(s) THEN ForceClose(has_opened_bold, has_opened_italic)
    ELSE IF s[i] = 2 \/ (s[i] = 15 /\ has_opened_bold)
        THEN <<<<42, 42>>>> \o TogglePieces(s, i + 1, ~has_opened_bold, has_opened_italic)
    ELSE IF s[i] = 29 \/ (s[i] = 15 /\ has_opened_italic)
        THEN <<<<42>>>> \o TogglePieces(s, i + 1, has_opened_bold, ~has_opened_italic)
    ELSE <<<<s[i]>>>> \o TogglePieces(s, i + 1, has_opened_bold, has_opened_italic)

Toggle(s, i, has_opened_bold, has_opened_italic) ==
    Concat(TogglePieces(s, i, has_opened_bold, has_opened_italic))

\* Lines 314-318.
ActionUnwrap(s) ==
    IF starts_with(s, Str_action) /\ Len(s) > Len(Str_action) /\ s[Len(s)] = 1
        THEN <<42>> \o SubSeq(s, Len(Str_action) + 1, Len(s) - 1) \o <<42>>
    ELSE s

\* HashMap::new and HashMap::insert.
EmptyMap == [x \in {} |-> <<>>]
Put(f, k, val) == [x \in DOMAIN f \cup {k} |-> IF x = k THEN val ELSE f[x]]

\* \w of the regexes, on ASCII.
IsWord(b) == b \in (48..57) \cup (65..90) \cup (97..122) \cup {95}

\* The decimal digits of n, as Display writes a u64.
RECURSIVE Dec(_)
Dec(n) == IF n < 10 THEN <<48 + n>> ELSE Dec(n \div 10) \o <<48 + (n % 10)>>

\* UserId::mention: "<@id>".
mention(id) == <<60, 64>> \o Dec(id) \o <<62>>

\* Lines 253-255: the id of the first member whose display name is slice.
RECURSIVE MemberId(_, _)
MemberId(ms, slice) ==
    IF ms = <<>> THEN <<>>
    ELSE IF Head(ms).display_name = slice THEN <<Head(ms).id>>
    ELSE MemberId(Tail(ms), slice)

\* A plausible slip: the Roster is asked every time, the cache only written.
CachedIdFresh(cache, ms, slice) ==
    [id |-> MemberId(ms, slice), cache |-> Put(cache, slice, MemberId(ms, slice))]

\* Lines 249-257: entry(slice).or_insert_with(..): the id the cache holds
\* for slice, looked up in the Roster and stored when it holds none.
CachedId(cache, ms, slice) ==
    IF slice \in DOMAIN cache THEN [id |-> cache[slice], cache |-> cache]
    ELSE [id |-> MemberId(ms, slice), cache |-> Put(cache, slice, MemberId(ms, slice))]

\* The end of the longest run from index i on of bytes in S: the index of
\* its last byte, i - 1 when the run is empty.
RECURSIVE RunEnd(_, _, _)
RunEnd(s, i, S) ==
    IF i > Len(s) \/ s[i] \notin S THEN i - 1 ELSE RunEnd(s, i + 1, S)

NickBytes == {b \in 0..255 : IsWord(b)} \cup {43}   \* [\w+]
NonSpace == (0..255) \ Whitespace                  \* [\w\S]

\* PING_NICK_1 (line 268) with MemberReplacer, lines 282-284: a name at the
\* start of the message, followed by ':' or ','.
PingNick1(s, ms, cache) ==
    LET k == RunEnd(s, 1, NickBytes)
    IN  IF k >= 1 /\ k < Len(s) /\ s[k + 1] \in {58, 44}
            THEN LET l == CachedId(cache, ms, SubSeq(s, 1, k))
                 IN  [out |-> IF l.id # <<>>
                                  THEN mention(l.id[1]) \o SubSeq(s, k + 2, Len(s))
                              ELSE s,
                      cache |-> l.cache]
        ELSE [out |-> s, cache |-> cache]

\* Whether PING_RE_2 (line 269) matches at index i of s: '@' at the start
\* or after whitespace, with a byte that is not whitespace behind it.
Ping2At(s, i) ==
    /\ s[i] = 64
    /\ i = 1 \/ s[i - 1] \in Whitespace
    /\ i < Len(s) /\ s[i + 1] \notin Whitespace

\* PING_RE_2 with MemberReplacer, lines 286-288, from index i on.
RECURSIVE PingRe2(_, _, _, _)
PingRe2(s, i, ms, cache) ==
    IF i > Len(s) THEN [out |-> <<>>, cache |-> cache]
    ELSE IF Ping2At(s, i)
        THEN LET j == RunEnd(s, i + 1, NonSpace)
                 l == CachedId(cache, ms, SubSeq(s, i + 1, j))
                 r == PingRe2(s, j + 1, ms, l.cache)
             IN  [out |-> (IF l.id # <<>> THEN mention(l.id[1]) ELSE SubSeq(s, i, j))
                          \o r.out,
                  cache |-> r.cache]
    ELSE LET r == PingRe2(s, i + 1, ms, cache)
         IN  [out |-> <<s[i]>> \o r.out, cache |-> r.cache]

\* irc_to_discord_processing on a message that names no channel and no
\* emoji ('#' and ":name:" do not occur in it; on such a message lines
\* 290-310 change nothing): the text it returns and the id_cache it leaves.
irc_to_discord_processing(message, ms, cache) ==
    IF message # <<>> /\ message[1] \in Whitespace
       /\ ~\E i \in 1..Len(message) : Ping2At(message, i)
        THEN [out |-> <<96>> \o message \o <<96>>, cache |-> cache, pushed |-> <<>>]
    ELSE LET p1 == PingNick1(message, ms, cache)
             p2 == PingRe2(p1.out, 1, ms, p1.cache)
         IN  [out |-> StripControl(Toggle(ActionUnwrap(p2.out), 1, FALSE, FALSE), 1),
              cache |-> p2.cache,
              pushed |-> TogglePieces(ActionUnwrap(p2.out), 1, FALSE, FALSE)]

(***************************************************************************)
(* irc_discord.rs: irc_loop and msg_task; main.rs: the select! of main     *)
(***************************************************************************)
MaxEvents == 2     \* Platform-B events the loop reads in a run

N1 == <<110, 49>>   \* "n1"
N2 == <<110, 50>>   \* "n2"
Nicks == {N1, N2}

\* The configuration: #a is mapped and has a webhook, #b is mapped and has
\* none, #x is not mapped.
IrcChannels == {"#a", "#b", "#x"}
mapping == [c \in {"#a", "#b"} |-> IF c = "#a" THEN 1 ELSE 2]
webhooks == {"#a"}

\* The Roster at startup: n1 is a member with an avatar.
Roster0 == <<[id |-> 7, display_name |-> N1, avatar_url |-> <<"u7">>]>>

NameLists == {<<N1>>, <<N1, N2>>}
IrcBodies == {<<>>, <<104, 105>>, <<15>>}
Reasons == {<<>>, <<<<98, 121, 101>>>>}


\* A plausible slip: the Roster is not asked.
FindAvatarNone(ms, n) == <<>>

\* Lines 150-154: the avatar of the first member with that display name.
RECURSIVE FindAvatar(_, _)
FindAvatar(ms, n) ==
    IF ms = <<>> THEN <<>>
    ELSE IF Head(ms).display_name = n /\ Head(ms).avatar_url # <<>>
        THEN Head(ms).avatar_url
    ELSE FindAvatar(Tail(ms), n)

\* Vec::swap_remove.
swap_remove(us, pos) ==
    [i \in 1..(Len(us) - 1) |-> IF i = pos THEN us[Len(us)] ELSE us[i]]

\* Iterator::position: the first index of n in us, 0 for None.
position(us, n) ==
    IF \E i \in 1..Len(us) : us[i] = n
        THEN CHOOSE i \in 1..Len(us) : us[i] = n /\ \A j \in 1..(i - 1) : us[j] # n
    ELSE 0

\* A plausible slip: the call is not awaited for, as in the direct posts of
\* main.rs:748.
await_after_direct(cmd, miss) ==
    IF cmd \in {"RPL_TOPIC", "TOPIC"} THEN "edit"
    ELSE IF cmd = "PRIVMSG" /\ miss THEN "fetch"
    ELSE IF cmd = "JOIN" THEN "say"
    ELSE "read"

\* Where the loop is after the synchronous part of an event on a mapped
\* channel: awaiting the channel edit (lines 92, 227), awaiting the
\* metadata of lines 108-116 when it is not cached, or back at stream.next().
await_after(cmd, miss) ==
    IF cmd \in {"RPL_TOPIC", "TOPIC"} THEN "edit"
    ELSE IF cmd = "PRIVMSG" /\ miss THEN "fetch"
    ELSE "read"

\* A plausible slip: the test is inverted.
is_dropped_inverted(m) == m.content # <<>>

\* A plausible slip: the test is left out.
is_dropped_never(m) == FALSE

\* Lines 380 and 398: the message the consumer drops without a call.  Line
\* 398 names content, which the Raw arm does not bind; it is read as the text
\* the Raw message carries.
is_dropped(m) == m.content = <<>>

\* A plausible slip: the newest message is taken first.
DequeueLast(q) == Len(q)

\* recv.next(): the index in the channel of the message it returns.
Dequeue(q) == 1

\* A plausible slip: the call is spawned, not awaited.
CanRecvAny(pc) == pc \in {"recv", "send"}

\* Line 371: the consumer is at recv.next(), no call of its own pending.
CanRecv(pc) == pc = "recv"

Running == proc # "exited"
SenderAlive == loop_pc \in {"read", "fetch", "edit", "say"}
ReceiverAlive == task_pc \in {"recv", "send"}

\* Line 68-74, with expired saying whether the ttl has run out.
AvatarsAt(expired) == IF expired THEN EmptyMap ELSE avatar_cache
MetaAt(expired) ==
    IF expired THEN [channels |-> FALSE, guild |-> FALSE, emojis |-> FALSE] ELSE meta
Miss(m) == ~(m.channels /\ m.guild /\ m.emojis)

\* send.send(..)? for each of msgs in turn, then on to the point pc: the
\* first send fails when the receiver is gone, and the loop returns Err.
Send(msgs, pc) ==
    IF msgs # <<>> /\ ~ReceiverAlive
        THEN /\ loop_pc' = "err"
             /\ UNCHANGED <<queue, next_id>>
    ELSE /\ loop_pc' = pc
         /\ queue' = queue \o [i \in 1..Len(msgs) |->
                                  [msgs[i] EXCEPT !.id = next_id + i - 1]]
         /\ next_id' = next_id + Len(msgs)

Raw(c, text) ==
    [id |-> 0, kind |-> "Raw", target |-> mapping[c], content |-> text,
     nickname |-> <<>>, avatar_url |-> <<>>]

\* Lines 126-170 for the message event e, the caches being av and m.
Relay(e, av) ==
    LET processed == irc_to_discord_processing(e.message, members, id_cache)
        computed == processed.out
        avatar == IF e.nick \in DOMAIN av THEN av[e.nick]
                  ELSE FindAvatar(members, e.nick)
    IN  /\ id_cache' = processed.cache
        /\ IF e.channel \in webhooks
               THEN /\ avatar_cache' = Put(av, e.nick, avatar)
                    /\ Send(<<[id |-> 0, kind |-> "Webhook", target |-> e.channel,
                               content |-> computed, nickname |-> e.nick,
                               avatar_url |-> avatar]>>, "read")
           ELSE /\ avatar_cache' = av
                /\ Send(<<Raw(e.channel, <<60>> \o e.nick \o Str_gt_comma \o computed)>>,
                        "read")

CanRead == proc = "running" /\ loop_pc = "read" /\ nread < MaxEvents

\* What every event does first: it is counted, and the ttl is looked at.
Read(expired) ==
    /\ CanRead
    /\ nread' = nread + 1

consumerVars == <<task_pc, cur, hist>>

loopVars == <<loop_pc, ev, nread, queue, next_id, net, channel_users, meta, avatar_cache>>
mainVars == <<proc, exit_err, noticed>>
restVars == <<line, size, v, chunks, it_pc, nick, pfx, ref_content_limit, hmsg, hout, sent,
              roster_lock, tasks, d2i_in, d2i_out, i2d_in, i2d_out>>
queueVars == <<proc, exit_err, noticed, loop_pc, ev, nread, queue, next_id, task_pc, cur, hist,
               net, channel_users, meta, avatar_cache, id_cache, members>>

LoopReq(op) == [by |-> "irc_loop", op |-> op, id |-> 0]
MainReq == [by |-> "main", op |-> "say", id |-> 0]

\* main.rs:431: the channel of the configuration, the one main posts to.
channel_id == mapping["#a"]
TaskReq(m) ==
    [by |-> "msg_task", op |-> IF m.kind = "Webhook" THEN "execute" ELSE "say",
     id |-> m.id]

\* The await, if any, the event e ends its synchronous part at.
Await(e, miss) ==
    LET pc == await_after(e.cmd, miss)
    IN  /\ ev' = IF pc = "read" THEN <<>> ELSE <<e>>
        /\ net' = IF pc = "read" THEN net ELSE net \cup {LoopReq(pc)}

Perms(S) ==
    {p \in [1..Cardinality(S) -> S] : \A i, j \in 1..Cardinality(S) : p[i] = p[j] => i = j}

QueueInit ==
    /\ proc = "running"
    /\ exit_err = FALSE
    /\ noticed = {}
    /\ loop_pc = "read"
    /\ ev = <<>>
    /\ nread = 0
    /\ queue = <<>>
    /\ next_id = 1
    /\ task_pc = "recv"
    /\ cur = <<>>
    /\ hist = <<>>
    /\ net = {}
    /\ channel_users = EmptyMap
    /\ meta = [channels |-> FALSE, guild |-> FALSE, emojis |-> FALSE]
    /\ avatar_cache = EmptyMap
    /\ id_cache = EmptyMap
    /\ members = Roster0

\* Lines 79-86 and 95: a name-list reply.
ReadNames ==
    \E expired \in BOOLEAN, c \in IrcChannels, users \in NameLists :
        /\ Read(expired)
        /\ channel_users' = Put(channel_users, c, users)
        /\ avatar_cache' = AvatarsAt(expired)
        /\ meta' = MetaAt(expired)
        /\ UNCHANGED <<mainVars, loop_pc, ev, queue, next_id, net, consumerVars, members, id_cache, restVars>>

\* Lines 87-95 (a topic reply) and 224-228 (a topic set by a user, whose
\* topic may be absent).
ReadTopic ==
    \E expired \in BOOLEAN, c \in IrcChannels, cmd \in {"RPL_TOPIC", "TOPIC"},
       has_topic \in BOOLEAN :
        LET e == [cmd |-> cmd, channel |-> c]
        IN  /\ Read(expired)
            /\ avatar_cache' = AvatarsAt(expired)
            /\ meta' = MetaAt(expired)
            /\ IF (cmd = "TOPIC" /\ ~has_topic) \/ c \notin DOMAIN mapping
                   THEN UNCHANGED <<loop_pc, ev, net>>
               ELSE loop_pc' = await_after(cmd, FALSE) /\ Await(e, FALSE)
            /\ UNCHANGED <<mainVars, queue, next_id, channel_users, consumerVars, members, id_cache, restVars>>

\* Line 98, and a command none of the branches is for: nothing is done.
ReadOther ==
    \E expired \in BOOLEAN :
        /\ Read(expired)
        /\ avatar_cache' = AvatarsAt(expired)
        /\ meta' = MetaAt(expired)
        /\ UNCHANGED <<mainVars, loop_pc, ev, queue, next_id, net, channel_users,
                       consumerVars, members, id_cache, restVars>>

\* Lines 103-170: a message.  The Roster lock of line 126 is taken to be
\* free when it is asked for.
Privmsg(expired, c, n, body) ==
    LET e == [cmd |-> "PRIVMSG", channel |-> c, nick |-> n, message |-> body]
    IN  /\ Read(expired)
        /\ meta' = MetaAt(expired)
        /\ IF c \notin DOMAIN mapping
               THEN /\ avatar_cache' = AvatarsAt(expired)
                    /\ UNCHANGED <<loop_pc, ev, queue, next_id, net, id_cache>>
           ELSE IF Miss(MetaAt(expired))
               THEN /\ avatar_cache' = AvatarsAt(expired)
                    /\ loop_pc' = await_after("PRIVMSG", TRUE)
                    /\ Await(e, TRUE)
                    /\ UNCHANGED <<queue, next_id, id_cache>>
           ELSE Relay(e, AvatarsAt(expired)) /\ Await(e, FALSE)
        /\ UNCHANGED <<mainVars, channel_users, consumerVars, members, restVars>>

ReadPrivmsg ==
    \E expired \in BOOLEAN, c \in IrcChannels, n \in Nicks, body \in IrcBodies :
        Privmsg(expired, c, n, body)

\* Lines 108-123 have answered: the three lists are kept, and the message
\* goes on to lines 124-170; or one of the calls failed.
FetchDone ==
    /\ proc = "running"
    /\ loop_pc = "fetch"
    /\ \E ok \in BOOLEAN, has_emojis \in BOOLEAN :
           /\ net' = net \ {LoopReq("fetch")}
           /\ ev' = <<>>
           /\ IF ok
                  THEN /\ meta' = [channels |-> TRUE, guild |-> TRUE, emojis |-> has_emojis]
                       /\ Relay(ev[1], avatar_cache)
              ELSE /\ loop_pc' = "err"
                   /\ UNCHANGED <<meta, avatar_cache, id_cache, queue, next_id>>
    /\ UNCHANGED <<mainVars, nread, channel_users, consumerVars, members, restVars>>

\* Lines 171-181.
Join(expired, c, n) ==
    LET e == [cmd |-> "JOIN", channel |-> c, nick |-> n]
    IN  /\ Read(expired)
        /\ avatar_cache' = AvatarsAt(expired)
        /\ meta' = MetaAt(expired)
        /\ IF c \in DOMAIN mapping /\ c \in DOMAIN channel_users
               THEN /\ channel_users' = [channel_users EXCEPT ![c] = Append(@, n)]
                    /\ Send(<<Raw(c, <<42>> \o n \o Str_joined)>>,
                            await_after("JOIN", FALSE))
                    /\ Await(e, FALSE)
           ELSE UNCHANGED <<channel_users, loop_pc, ev, queue, next_id, net>>
        /\ UNCHANGED <<mainVars, consumerVars, members, id_cache, restVars>>

ReadJoin ==
    \E expired \in BOOLEAN, c \in IrcChannels, n \in Nicks : Join(expired, c, n)

QuitText(n, reason) ==
    <<42>> \o n \o Str_has_quit
    \o (IF reason = <<>> THEN Str_conn_closed ELSE reason[1]) \o <<41>>

\* Lines 182-195.
ReadPart ==
    \E expired \in BOOLEAN, c \in IrcChannels, n \in Nicks, reason \in Reasons :
        /\ Read(expired)
        /\ avatar_cache' = AvatarsAt(expired)
        /\ meta' = MetaAt(expired)
        /\ IF c \in DOMAIN channel_users /\ c \in DOMAIN mapping
              /\ position(channel_users[c], n) > 0
               THEN /\ channel_users' =
                           [channel_users EXCEPT
                               ![c] = swap_remove(@, position(@, n))]
                    /\ Send(<<Raw(c, QuitText(n, reason))>>, "read")
           ELSE UNCHANGED <<channel_users, loop_pc, queue, next_id>>
        /\ UNCHANGED <<mainVars, ev, net, consumerVars, members, id_cache, restVars>>

\* The channels of order, the order the map is iterated in, that lines
\* 198-199 and 213-214 do not skip for the nickname n.
Touched(order, n) ==
    SelectSeq(order, LAMBDA c : c \in DOMAIN mapping
                                /\ position(channel_users[c], n) > 0)

\* The channels whose user list is changed before the loop is left: all
\* the touched ones, or the first one when its send fails.
Changed(order, n) ==
    LET t == Touched(order, n)
    IN  IF t = <<>> THEN {}
        ELSE IF ReceiverAlive THEN {t[i] : i \in 1..Len(t)} ELSE {t[1]}

\* Lines 196-210.
Quit(expired, n, reason, order) ==
    LET t == Touched(order, n)
    IN  /\ Read(expired)
        /\ avatar_cache' = AvatarsAt(expired)
        /\ meta' = MetaAt(expired)
        /\ channel_users' =
               [c \in DOMAIN channel_users |->
                   IF c \in Changed(order, n)
                       THEN swap_remove(channel_users[c],
                                        position(channel_users[c], n))
                   ELSE channel_users[c]]
        /\ Send([i \in 1..Len(t) |-> Raw(t[i], QuitText(n, reason))], "read")
        /\ UNCHANGED <<mainVars, ev, net, consumerVars, members, id_cache, restVars>>

ReadQuit ==
    \E expired \in BOOLEAN, n \in Nicks, reason \in Reasons,
       order \in Perms(DOMAIN channel_users) :
        Quit(expired, n, reason, order)

\* Lines 211-223.
Nick(expired, n, new_nick, order) ==
    LET t == Touched(order, n)
    IN  /\ Read(expired)
        /\ avatar_cache' = AvatarsAt(expired)
        /\ meta' = MetaAt(expired)
        /\ channel_users' =
               [c \in DOMAIN channel_users |->
                   IF c \in Changed(order, n)
                       THEN [channel_users[c] EXCEPT
                                ![position(channel_users[c], n)] = new_nick]
                   ELSE channel_users[c]]
        /\ Send([i \in 1..Len(t) |->
                    Raw(t[i], <<42>> \o n \o Str_known \o new_nick \o <<42>>)],
                "read")
        /\ UNCHANGED <<mainVars, ev, net, consumerVars, members, id_cache, restVars>>

ReadNick ==
    \E expired \in BOOLEAN, n \in Nicks, new_nick \in Nicks,
       order \in Perms(DOMAIN channel_users) :
        Nick(expired, n, new_nick, order)

\* The call the loop awaits at lines 92 and 227 has answered.
LoopAwaitDone ==
    /\ proc = "running"
    /\ loop_pc \in {"edit", "say"}
    /\ \E ok \in BOOLEAN : loop_pc' = IF ok THEN "read" ELSE "err"
    /\ net' = net \ {LoopReq(loop_pc)}
    /\ ev' = <<>>
    /\ UNCHANGED <<mainVars, nread, queue, next_id, channel_users, meta, avatar_cache,
                   consumerVars, members, id_cache, restVars>>

\* Line 67: the stream has ended (the loop returns Ok) or failed (Err).
StreamEnd ==
    /\ proc = "running"
    /\ loop_pc = "read"
    /\ \E ok \in BOOLEAN : loop_pc' = IF ok THEN "ok" ELSE "err"
    /\ UNCHANGED <<mainVars, ev, nread, queue, next_id, net, channel_users, meta,
                   avatar_cache, consumerVars, members, id_cache, restVars>>

\* msg_task, lines 371-402: a message is taken from the channel and either
\* dropped or given to the network.
TaskRecv ==
    /\ Running
    /\ CanRecv(task_pc)
    /\ queue # <<>>
    /\ LET i == Dequeue(queue)
           m == queue[i]
       IN  /\ queue' = [k \in 1..(Len(queue) - 1) |->
                           IF k < i THEN queue[k] ELSE queue[k + 1]]
           /\ IF is_dropped(m)
                  THEN /\ hist' = Append(hist, [id |-> m.id, what |-> "drop"])
                       /\ UNCHANGED <<task_pc, cur, net>>
              ELSE /\ hist' = Append(hist, [id |-> m.id, what |-> "start"])
                   /\ task_pc' = "send"
                   /\ cur' = <<m>>
                   /\ net' = net \cup {TaskReq(m)}
    /\ UNCHANGED <<mainVars, loop_pc, ev, nread, next_id, channel_users, meta,
                   avatar_cache, members, id_cache, restVars>>

\* Line 371: every sender is gone and the channel is empty, recv.next()
\* is None and the task returns Ok.
TaskRecvNone ==
    /\ Running
    /\ task_pc = "recv"
    /\ queue = <<>>
    /\ ~SenderAlive
    /\ task_pc' = "ok"
    /\ UNCHANGED <<mainVars, loop_pc, ev, nread, queue, next_id, net, channel_users,
                   meta, avatar_cache, cur, hist, members, id_cache, restVars>>

\* Lines 391 and 401: the call has answered; on Err the task returns.
TaskCallDone ==
    /\ Running
    /\ task_pc = "send"
    /\ \E ok \in BOOLEAN :
           /\ hist' = Append(hist, [id |-> cur[1].id,
                                    what |-> IF ok THEN "done" ELSE "fail"])
           /\ task_pc' = IF ok THEN "recv" ELSE "err"
    /\ net' = net \ {TaskReq(cur[1])}
    /\ cur' = <<>>
    /\ UNCHANGED <<mainVars, loop_pc, ev, nread, queue, next_id, channel_users, meta,
                   avatar_cache, members, id_cache, restVars>>

\* A plausible slip: the result is dropped (`let _ = r`), main returns Ok.
TryIgnored(ok) == FALSE

\* The `?` of main.rs:471-473 on a result that is Ok (ok) or Err: whether
\* main returns the error.
Try(ok) == ~ok

\* main.rs:471: the loop has returned, and main returns with its result.
SelectLoop ==
    /\ proc = "running"
    /\ loop_pc \in {"ok", "err"}
    /\ proc' = "exited"
    /\ exit_err' = Try(loop_pc = "ok")
    /\ UNCHANGED <<noticed, loopVars, consumerVars, members, id_cache, restVars>>

\* main.rs:472: the Platform-A client has returned, Ok (ok) or Err.
ClientReturned(ok) ==
    /\ proc = "running"
    /\ proc' = "exited"
    /\ exit_err' = Try(ok)
    /\ UNCHANGED <<noticed, loopVars, consumerVars, members, id_cache, restVars>>

SelectClient == \E ok \in BOOLEAN : ClientReturned(ok)

\* main.rs:473: the termination signal; the other branches of the select!
\* are dropped, and main posts the notice.  The spawned msg_task goes on.
TermSignal ==
    /\ proc = "running"
    /\ proc' = "notice"
    /\ loop_pc' = IF loop_pc \in {"ok", "err"} THEN loop_pc ELSE "dropped"
    /\ ev' = <<>>
    /\ net' = {r \in net : r.by # "irc_loop"} \cup {MainReq}
    /\ UNCHANGED <<exit_err, noticed, nread, queue, next_id, channel_users, meta,
                   avatar_cache,
                   consumerVars, members, id_cache, restVars>>

\* main.rs:473: the post has answered, Ok (ok) or Err, and main returns.
NoticeAnswered(ok) ==
    /\ proc = "notice"
    /\ proc' = "exited"
    /\ exit_err' = Try(ok)
    /\ noticed' = IF ok THEN noticed \cup {channel_id} ELSE noticed
    /\ net' = net \ {MainReq}
    /\ UNCHANGED <<loop_pc, ev, nread, queue, next_id, channel_users, meta,
                   avatar_cache, consumerVars, members, id_cache, restVars>>

NoticeDone == \E ok \in BOOLEAN : NoticeAnswered(ok)

(***************************************************************************)
(* The chunker on its own: an iterator over one line, next() called until  *)
(* it returns None.                                                        *)
(***************************************************************************)
\* The parts of the state a specification does not exercise stay as they
\* are before anything has run.
ChunkIdle == line = <<>> /\ size = 1 /\ v = <<>> /\ chunks = <<>> /\ it_pc = "done"
PrefixIdle == nick = <<>> /\ pfx = <<>>
HandlerIdle == ref_content_limit = <<>> /\ hmsg = <<>> /\ hout = <<>> /\ sent = <<>>
RosterIdle == roster_lock = <<>> /\ tasks = <<>>
TransIdle == d2i_in = <<>> /\ d2i_out = <<>> /\ i2d_in = <<>> /\ i2d_out = <<>>
QueueIdle == QueueInit

ChunkInit ==
    /\ line \in {Utf8(cps) : cps \in SeqsUpTo(Chars, MaxLen)}
    /\ size \in 1..MaxSize
    /\ v = line
    /\ chunks = <<>>
    /\ it_pc = "iter"
    /\ PrefixIdle
    /\ HandlerIdle
    /\ QueueIdle
    /\ RosterIdle
    /\ TransIdle

\* A call that returns Some.  A run that ends yields at most Len(line)
\* items; the record of the items keeps no more than that plus one, and an
\* iterator that goes on after them repeats the last one without end.
NextSome ==
    /\ it_pc = "iter"
    /\ StrChunks_next(v, size).some
    /\ v' = StrChunks_next(v, size).v
    /\ chunks' = IF Len(chunks) <= Len(line)
                      THEN Append(chunks, StrChunks_next(v, size).res)
                  ELSE chunks
    /\ UNCHANGED <<line, size, it_pc, prefixVars, handlerVars, queueVars, rosterVars, transVars>>

\* The call that returns None.
NextNone ==
    /\ it_pc = "iter"
    /\ ~StrChunks_next(v, size).some
    /\ it_pc' = "done"
    /\ UNCHANGED <<line, size, v, chunks, prefixVars, handlerVars, queueVars, rosterVars, transVars>>

ChunkNext == NextSome \/ NextNone

ChunkSpec == ChunkInit /\ [][ChunkNext]_vars

\* The caller's for loop keeps calling next().
FairChunkSpec == ChunkSpec /\ WF_vars(ChunkNext)

(***************************************************************************)
(* create_prefix on its own.                                               *)
(***************************************************************************)
PrefixInit ==
    /\ nick \in SeqsUpTo(Chars, MaxNameLen) \ {<<>>}
    /\ pfx = <<>>
    /\ ChunkIdle
    /\ HandlerIdle
    /\ QueueIdle
    /\ RosterIdle
    /\ TransIdle

CallCreatePrefix ==
    /\ pfx = <<>>
    /\ \E fetched \in BOOLEAN, is_reply \in BOOLEAN :
           pfx' = <<[fetched |-> fetched, is_reply |-> is_reply,
                     out |-> create_prefix(fetched, Utf8(nick), is_reply)]>>
    /\ UNCHANGED <<nick, chunkVars, handlerVars, queueVars, rosterVars, transVars>>

PrefixNext == CallCreatePrefix

PrefixSpec == PrefixInit /\ [][PrefixNext]_vars

(***************************************************************************)
(* Handler::message on one message event.                                  *)
(***************************************************************************)
\* Display names: two chars, one char, the longest the platform allows
\* (32 chars of four bytes), two multi-byte chars.
MsgNames == {<<97, 98>>, <<97>>, Utf8(Rep(128512, 32)), Utf8(<<233, 8364>>)}

\* Contents after transcoding: empty, "hi", bold "hi" with its reset, more
\* than one chunk of one-byte and of three-byte chars, two lines, raw
\* passthrough short and long, the raw prefix alone.
MsgBodies ==
    {<<>>, <<104, 105>>, <<2, 104, 105, 15>>, Rep(97, 450), Utf8(Rep(8364, 140)),
     <<97, 10, 98>>, <<43, 43, 32, 104, 105>>, <<43, 43>> \o Rep(97, 450), <<43, 43>>}

\* Replied-to contents: short, longer than any budget in one-byte chars,
\* fewer chars than the budget but more bytes.
ReplyBodies == {<<111, 107, 32>>, Rep(97, 500), Utf8(Rep(8364, 200))}

Url == <<104, 116, 116, 112, 115, 58, 47, 47, 99, 47, 120>>   \* "https://c/x"
Url2 == <<104, 116, 116, 112, 115, 58, 47, 47, 99, 47, 121>>   \* "https://c/y"

Replies ==
    {<<>>} \cup {<<[fetched |-> f, nick |-> n, content |-> c]>> :
                    f \in BOOLEAN, n \in {<<97, 98>>, <<97>>}, c \in ReplyBodies}

MsgEvents ==
    [kind : {"Regular", "InlineReply", "Other"}, author : [id : {1, 2}, bot : BOOLEAN],
     mapped : BOOLEAN, fetched : BOOLEAN, nick : MsgNames, computed : MsgBodies,
     reply : Replies, attachments : {<<>>, <<Url>>, <<Url, Url2>>}]

MsgInit ==
    /\ ref_content_limit \in {<<>>, <<50>>}
    /\ hmsg = <<>>
    /\ hout = <<>>
    /\ sent = <<>>
    /\ ChunkIdle
    /\ PrefixIdle
    /\ QueueIdle
    /\ RosterIdle
    /\ TransIdle

OnMessage ==
    /\ hmsg = <<>>
    /\ \E m \in MsgEvents :
           /\ hmsg' = <<m>>
           /\ hout' = <<[HandlerMessage(m) EXCEPT !.lines = <<>>]>>
           /\ sent' = HandlerMessage(m).lines
    /\ UNCHANGED <<ref_content_limit, chunkVars, prefixVars, queueVars, rosterVars, transVars>>

MsgNext == OnMessage

MsgSpec == MsgInit /\ [][MsgNext]_vars

(***************************************************************************)
(* The B -> A side: irc_loop, the msg_task it spawns, and main around them. *)
(***************************************************************************)
LoopStep ==
    \/ ReadNames
    \/ ReadTopic
    \/ ReadOther
    \/ ReadPrivmsg
    \/ FetchDone
    \/ ReadJoin
    \/ ReadPart
    \/ ReadQuit
    \/ ReadNick
    \/ LoopAwaitDone
    \/ StreamEnd

TaskStep == TaskRecv \/ TaskRecvNone \/ TaskCallDone

MainStep == SelectLoop \/ SelectClient \/ TermSignal \/ NoticeDone

QueueNext == LoopStep \/ TaskStep \/ MainStep

QueueStart ==
    QueueInit /\ ChunkIdle /\ PrefixIdle /\ HandlerIdle /\ RosterIdle /\ TransIdle

QueueSpec == QueueStart /\ [][QueueNext]_vars

\* As FairQueueSpec, and main goes on when the branch of the select! it
\* polls has returned, and the calls the loop and main await answer.
FairRelaySpec ==
    /\ QueueSpec
    /\ WF_vars(TaskStep)
    /\ WF_vars(SelectLoop)
    /\ WF_vars(FetchDone)
    /\ WF_vars(LoopAwaitDone)
    /\ WF_vars(NoticeDone)

\* The loop with the name lists of some channels received already, and the
\* events that read or change channel_users.
UsersInit ==
    /\ proc = "running"
    /\ exit_err = FALSE
    /\ noticed = {}
    /\ loop_pc = "read"
    /\ ev = <<>>
    /\ nread = 0
    /\ queue = <<>>
    /\ next_id = 1
    /\ task_pc = "recv"
    /\ cur = <<>>
    /\ hist = <<>>
    /\ net = {}
    /\ \E S \in SUBSET IrcChannels : channel_users \in [S -> NameLists]
    /\ meta = [channels |-> FALSE, guild |-> FALSE, emojis |-> FALSE]
    /\ avatar_cache = EmptyMap
    /\ id_cache = EmptyMap
    /\ members = Roster0
    /\ ChunkIdle /\ PrefixIdle /\ HandlerIdle /\ RosterIdle /\ TransIdle

UsersNext == ReadNames \/ ReadJoin \/ ReadPart \/ ReadQuit \/ ReadNick

UsersSpec == UsersInit /\ [][UsersNext]_vars

\* The runtime runs the spawned task when it can go on, and a call to
\* Platform A answers, with a result or with an error.
FairQueueSpec ==
    QueueSpec /\ WF_vars(TaskStep)

(***************************************************************************)
(* The Roster: the handlers that change it (discord_irc.rs:206-244) and    *)
(* the two readers of it (discord_irc.rs:138-159, irc_discord.rs:126-155), *)
(* each a task of its own that takes the Mutex around the Roster.          *)
(***************************************************************************)
MaxTasks == 2      \* handler and reader tasks spawned in a run

UserIds == {7, 8}
NewMembers ==
    {[id |-> i, display_name |-> n, avatar_url |-> <<>>] : i \in UserIds, n \in Nicks}

\* Iterator::position(|m| m.user.id == id): the first index, 0 for None.
position_by_id(ms, id) ==
    IF \E i \in 1..Len(ms) : ms[i].id = id
        THEN CHOOSE i \in 1..Len(ms) : ms[i].id = id /\ \A j \in 1..(i - 1) : ms[j].id # id
    ELSE 0

\* A plausible slip: nothing is taken out.
vec_remove_none(ms, x) == ms

\* Vec::remove.
vec_remove(ms, x) == [i \in 1..(Len(ms) - 1) |-> IF i < x THEN ms[i] ELSE ms[i + 1]]

\* A plausible slip: the lock is not waited for.
LockFreeAlways(l) == TRUE

\* Mutex::lock().await goes on when no task holds the Mutex.
LockFree(l) == l = <<>>

TaskKinds ==
    {[kind |-> "addition", arg |-> <<m>>] : m \in NewMembers}
    \cup {[kind |-> "update", arg |-> a] : a \in {<<>>} \cup {<<m>> : m \in NewMembers}}
    \cup {[kind |-> "removal", arg |-> <<i>>] : i \in UserIds}
    \cup {[kind |-> "message", arg |-> <<>>], [kind |-> "irc_loop", arg |-> <<>>]}

Writers == {"addition", "update", "removal"}
Readers == {"message", "irc_loop"}

Ended(t) == tasks[t].pc \in {"done", "panicked"}

\* An event arrives and its handler is at lock().await (lines 208, 220, 240,
\* 138; irc_discord.rs:126).  The loop is one task: it reads one message
\* at a time.
Spawn ==
    /\ Len(tasks) < MaxTasks
    /\ \E k \in TaskKinds :
           /\ k.kind = "irc_loop" =>
                  \A t \in 1..Len(tasks) : tasks[t].kind = "irc_loop" => Ended(t)
           /\ tasks' = Append(tasks, [kind |-> k.kind, arg |-> k.arg, pc |-> "wait",
                                      old |-> <<>>, snap |-> <<>>])
    /\ UNCHANGED <<roster_lock, members>>

\* A plausible slip: the guard is handed out while another task holds one.
LockBarging(t) ==
    /\ tasks[t].pc = "wait"
    /\ roster_lock' = <<t>>
    /\ tasks' = [tasks EXCEPT ![t].pc = "held", ![t].old = <<members>>]
    /\ UNCHANGED members

\* lock().await returns the guard.  old is the Roster the task found.
Lock(t) ==
    /\ tasks[t].pc = "wait"
    /\ LockFree(roster_lock)
    /\ roster_lock' = <<t>>
    /\ tasks' = [tasks EXCEPT ![t].pc = "held", ![t].old = <<members>>]
    /\ UNCHANGED members

\* Line 209.
AdditionPush(t) ==
    /\ tasks[t].kind = "addition" /\ tasks[t].pc = "held"
    /\ members' = Append(members, tasks[t].arg[1])
    /\ tasks' = [tasks EXCEPT ![t].pc = "changed"]
    /\ UNCHANGED roster_lock

\* Line 222 with new = None.
UpdateNone(t) ==
    /\ tasks[t].kind = "update" /\ tasks[t].pc = "held"
    /\ tasks[t].arg = <<>>
    /\ tasks' = [tasks EXCEPT ![t].pc = "changed"]
    /\ UNCHANGED <<roster_lock, members>>

\* Lines 223-227: the entry with the id of new is taken out.
UpdateRemove(t) ==
    /\ tasks[t].kind = "update" /\ tasks[t].pc = "held"
    /\ tasks[t].arg # <<>>
    /\ position_by_id(members, tasks[t].arg[1].id) > 0
    /\ members' = vec_remove(members, position_by_id(members, tasks[t].arg[1].id))
    /\ tasks' = [tasks EXCEPT ![t].pc = "removed"]
    /\ UNCHANGED roster_lock

\* Line 228.
UpdatePush(t) ==
    /\ tasks[t].kind = "update" /\ tasks[t].pc = "removed"
    /\ members' = Append(members, tasks[t].arg[1])
    /\ tasks' = [tasks EXCEPT ![t].pc = "changed"]
    /\ UNCHANGED roster_lock

\* Lines 242-243.
RemovalRemove(t) ==
    /\ tasks[t].kind = "removal" /\ tasks[t].pc = "held"
    /\ position_by_id(members, tasks[t].arg[1]) > 0
    /\ members' = vec_remove(members, position_by_id(members, tasks[t].arg[1]))
    /\ tasks' = [tasks EXCEPT ![t].pc = "changed"]
    /\ UNCHANGED roster_lock

\* A plausible slip: the Mutex stays locked when its holder panics.
MissPanicHolding(t) ==
    /\ tasks[t].pc = "held"
    /\ \/ /\ tasks[t].kind = "update" /\ tasks[t].arg # <<>>
          /\ position_by_id(members, tasks[t].arg[1].id) = 0
       \/ /\ tasks[t].kind = "removal"
          /\ position_by_id(members, tasks[t].arg[1]) = 0
    /\ tasks' = [tasks EXCEPT ![t].pc = "panicked"]
    /\ UNCHANGED <<roster_lock, members>>

\* Lines 226 and 242: position(..) is None and unwrap() panics; the guard
\* is dropped as the task unwinds.
MissPanic(t) ==
    /\ tasks[t].pc = "held"
    /\ \/ /\ tasks[t].kind = "update" /\ tasks[t].arg # <<>>
          /\ position_by_id(members, tasks[t].arg[1].id) = 0
       \/ /\ tasks[t].kind = "removal"
          /\ position_by_id(members, tasks[t].arg[1]) = 0
    /\ tasks' = [tasks EXCEPT ![t].pc = "panicked"]
    /\ roster_lock' = <<>>
    /\ UNCHANGED members

\* discord_irc.rs:140, 159 and irc_discord.rs:128-155: the Roster is read
\* through the guard.
Snapshot(t) ==
    /\ tasks[t].kind \in Readers /\ tasks[t].pc = "held"
    /\ tasks' = [tasks EXCEPT ![t].pc = "read", ![t].snap = <<members>>]
    /\ UNCHANGED <<roster_lock, members>>

\* The guard goes out of scope.
Unlock(t) ==
    /\ tasks[t].pc \in {"changed", "read"}
    /\ roster_lock' = <<>>
    /\ tasks' = [tasks EXCEPT ![t].pc = "done"]
    /\ UNCHANGED members

rosterRest ==
    <<chunkVars, prefixVars, handlerVars, transVars, proc, exit_err, noticed, loop_pc, ev, nread,
      queue, next_id, task_pc, cur, hist, net, channel_users, meta, avatar_cache,
      id_cache>>

RosterInit ==
    /\ roster_lock = <<>>
    /\ tasks = <<>>
    /\ ChunkIdle
    /\ PrefixIdle
    /\ HandlerIdle
    /\ QueueIdle
    /\ TransIdle

RosterSpawn == Spawn /\ UNCHANGED rosterRest
RosterLock == \E t \in 1..Len(tasks) : Lock(t) /\ UNCHANGED rosterRest
RosterAddition == \E t \in 1..Len(tasks) : AdditionPush(t) /\ UNCHANGED rosterRest
RosterUpdateNone == \E t \in 1..Len(tasks) : UpdateNone(t) /\ UNCHANGED rosterRest
RosterUpdateRemove == \E t \in 1..Len(tasks) : UpdateRemove(t) /\ UNCHANGED rosterRest
RosterUpdatePush == \E t \in 1..Len(tasks) : UpdatePush(t) /\ UNCHANGED rosterRest
RosterRemoval == \E t \in 1..Len(tasks) : RemovalRemove(t) /\ UNCHANGED rosterRest
RosterPanic == \E t \in 1..Len(tasks) : MissPanic(t) /\ UNCHANGED rosterRest
RosterSnapshot == \E t \in 1..Len(tasks) : Snapshot(t) /\ UNCHANGED rosterRest
RosterUnlock == \E t \in 1..Len(tasks) : Unlock(t) /\ UNCHANGED rosterRest

RosterNext ==
    \/ RosterSpawn
    \/ RosterLock
    \/ RosterAddition
    \/ RosterUpdateNone
    \/ RosterUpdateRemove
    \/ RosterUpdatePush
    \/ RosterRemoval
    \/ RosterPanic
    \/ RosterSnapshot
    \/ RosterUnlock

RosterSpec == RosterInit /\ [][RosterNext]_vars

(***************************************************************************)
(* Handler::message of discord_irc.rs:94-197 as a task among others of its *)
(* kind: the runtime runs the handlers of different messages as tasks of   *)
(* their own.  Everything before line 136 is the wait for the Mutex; the   *)
(* lines are sent one send_privmsg at a time (lines 166, 180-181, 187,     *)
(* 194) while members_lock is alive, which it is to the end of the         *)
(* function.                                                               *)
(***************************************************************************)
MaxLines == 2      \* lines sent for one Platform-A message

\* The line k of the message task t handles: the two are told apart by
\* their first byte.
LineOf(t, k) == <<48 + t, 48 + k>>

\* The lines task t has sent.
LinesSent(t) == Cardinality({i \in 1..Len(sent) : sent[i][1] = 48 + t})

\* Line 197: the end of the function, where members_lock goes out of scope.
AllSent(t) == LinesSent(t) = tasks[t].arg[1]

sendRest ==
    <<chunkVars, prefixVars, ref_content_limit, hmsg, hout, transVars, proc, exit_err,
      noticed, loop_pc, ev, nread, queue, next_id, task_pc, cur, hist, net, channel_users,
      meta, avatar_cache, id_cache>>

\* A message event is dispatched: its handler will have n lines to send.
MessageArrives ==
    /\ Len(tasks) < MaxTasks
    /\ \E n \in 1..MaxLines :
           tasks' = Append(tasks, [kind |-> "message", arg |-> <<n>>, pc |-> "wait",
                                   old |-> <<>>, snap |-> <<>>])
    /\ UNCHANGED <<roster_lock, members, sent, sendRest>>

\* Lines 166, 180-181, 187 and 194: the next send_privmsg.
SendLine ==
    /\ \E t \in 1..Len(tasks) :
           /\ tasks[t].kind = "message" /\ tasks[t].pc = "read"
           /\ ~AllSent(t)
           /\ sent' = Append(sent, LineOf(t, LinesSent(t) + 1))
    /\ UNCHANGED <<roster_lock, tasks, members, sendRest>>

\* send_privmsg returns Err and unwrap() panics: the guard is dropped as
\* the task unwinds.
SendPanics ==
    /\ \E t \in 1..Len(tasks) :
           /\ tasks[t].kind = "message" /\ tasks[t].pc = "read"
           /\ ~AllSent(t)
           /\ tasks' = [tasks EXCEPT ![t].pc = "panicked"]
    /\ roster_lock' = <<>>
    /\ UNCHANGED <<members, sent, sendRest>>

SendUnlock ==
    /\ \E t \in 1..Len(tasks) : tasks[t].kind = "message" /\ AllSent(t) /\ Unlock(t)
    /\ UNCHANGED <<sent, sendRest>>

SendNext ==
    \/ MessageArrives
    \/ RosterLock
    \/ RosterSnapshot
    \/ SendLine
    \/ SendPanics
    \/ SendUnlock

SendSpec == RosterInit /\ [][SendNext]_vars

(***************************************************************************)
(* The two locks.  A handler takes ctx.data.read().await first (lines 100, *)
(* 207, 219, 239) and members.lock().await under it (136, 208, 220, 240);  *)
(* both guards live to the end of the function.  Handler::ready takes      *)
(* ctx.data.write().await alone (line 202).  irc_loop takes the Mutex of   *)
(* the Roster alone (irc_discord.rs:126) and msg_task takes neither lock   *)
(* (irc_discord.rs:385-407).  The RwLock serves its waiters in the order   *)
(* they came, which is the order of the tasks here; a task at "data" waits *)
(* for it.                                                                 *)
(***************************************************************************)
LockKinds ==
    {[kind |-> "addition", arg |-> <<m>>] : m \in {n \in NewMembers : n.display_name = N2}}
    \cup {[kind |-> "update", arg |-> a] :
              a \in {<<>>} \cup {<<m>> : m \in {n \in NewMembers : n.display_name = N2}}}
    \cup {[kind |-> "removal", arg |-> <<i>>] : i \in UserIds}
    \cup {[kind |-> k, arg |-> <<>>] : k \in {"message", "irc_loop", "ready"}}

\* The task holds a read guard of ctx.data: a handler other than ready
\* that is past its read().await and has not ended.
HoldsRead(t) ==
    /\ tasks[t].kind \in Writers \cup {"message"}
    /\ tasks[t].pc \in {"wait", "held", "removed", "changed", "read"}

HoldsWrite(t) == tasks[t].kind = "ready" /\ tasks[t].pc = "writing"

\* An event is dispatched: its handler is at its first await.
LockSpawn ==
    /\ Len(tasks) < MaxTasks
    /\ \E k \in LockKinds :
           /\ k.kind = "irc_loop" =>
                  \A t \in 1..Len(tasks) : tasks[t].kind = "irc_loop" => Ended(t)
           /\ tasks' = Append(tasks,
                  [kind |-> k.kind, arg |-> k.arg,
                   pc |-> IF k.kind = "irc_loop" THEN "wait" ELSE "data",
                   old |-> <<>>, snap |-> <<>>])
    /\ UNCHANGED <<roster_lock, members, rosterRest>>

\* ctx.data.read().await returns: no writer holds the lock and none waits
\* in front of the task.
DataRead ==
    /\ \E t \in 1..Len(tasks) :
           /\ tasks[t].kind # "ready" /\ tasks[t].pc = "data"
           /\ \A u \in 1..Len(tasks) : ~HoldsWrite(u)
           /\ \A u \in 1..(t - 1) : ~(tasks[u].kind = "ready" /\ tasks[u].pc = "data")
           /\ tasks' = [tasks EXCEPT ![t].pc = "wait"]
    /\ UNCHANGED <<roster_lock, members, rosterRest>>

\* ctx.data.write().await returns: nobody holds the lock and nobody waits
\* in front of the task.
DataWrite ==
    /\ \E t \in 1..Len(tasks) :
           /\ tasks[t].kind = "ready" /\ tasks[t].pc = "data"
           /\ \A u \in 1..Len(tasks) : ~HoldsWrite(u) /\ ~HoldsRead(u)
           /\ \A u \in 1..(t - 1) : tasks[u].pc # "data"
           /\ tasks' = [tasks EXCEPT ![t].pc = "writing"]
    /\ UNCHANGED <<roster_lock, members, rosterRest>>

\* Lines 203-204: the insert, and the write guard goes out of scope.
ReadyInsert ==
    /\ \E t \in 1..Len(tasks) :
           /\ HoldsWrite(t)
           /\ tasks' = [tasks EXCEPT ![t].pc = "done"]
    /\ UNCHANGED <<roster_lock, members, rosterRest>>

\* What a task does once it is there.
LockProgress ==
    \/ DataRead
    \/ DataWrite
    \/ ReadyInsert
    \/ RosterLock
    \/ RosterAddition
    \/ RosterUpdateNone
    \/ RosterUpdateRemove
    \/ RosterUpdatePush
    \/ RosterRemoval
    \/ RosterPanic
    \/ RosterSnapshot
    \/ RosterUnlock

LockNext == LockSpawn \/ LockProgress

LockSpec == RosterInit /\ [][LockNext]_vars

\* The runtime runs a task that can go on.
FairLockSpec == LockSpec /\ WF_vars(LockProgress)

(***************************************************************************)
(* The two resolution caches of irc_loop (irc_discord.rs:49-50): messages  *)
(* that name a member, with members joining and leaving in between.        *)
(***************************************************************************)
\* "n2: hi", "hi @n1", "@n2"
MentionBodies ==
    {N2 \o <<58, 32, 104, 105>>, <<104, 105, 32, 64>> \o N1, <<64>> \o N2}

ReadMention ==
    \E expired \in BOOLEAN, c \in DOMAIN mapping, n \in Nicks, body \in MentionBodies :
        Privmsg(expired, c, n, body)

cacheRest ==
    <<mainVars, loopVars, id_cache, consumerVars, restVars>>

\* discord_irc.rs:206-210, the whole handler; the one who joins is not a
\* member yet.
MemberAdded ==
    /\ \E m \in NewMembers :
           /\ position_by_id(members, m.id) = 0
           /\ members' = Append(members, m)
    /\ UNCHANGED cacheRest

\* discord_irc.rs:232-244, the whole handler, for an id the Roster holds.
MemberRemoved ==
    /\ \E id \in UserIds :
           /\ position_by_id(members, id) > 0
           /\ members' = vec_remove(members, position_by_id(members, id))
    /\ UNCHANGED cacheRest

CacheNext == ReadMention \/ FetchDone \/ MemberAdded \/ MemberRemoved

CacheSpec == QueueStart /\ [][CacheNext]_vars

(***************************************************************************)
(* discord_to_irc_processing (discord_irc.rs:247-392) on the user-mention  *)
(* tokens of a message.  The texts it is applied to here hold no URL,      *)
(* emoji, channel or role token and no Markdown syntax, so that the        *)
(* passes at lines 284, 294-307 and 309-318 find nothing to replace and    *)
(* the parser of lines 329-385 reads one paragraph of plain text.          *)
(***************************************************************************)
MaxTokens == 2     \* tokens in a Platform-A message

\* "18446744073709551615", u64::MAX.
U64MaxDigits ==
    <<49, 56, 52, 52, 54, 55, 52, 52, 48, 55, 51, 55, 48, 57, 53, 53, 49, 54, 49, 53>>

\* digits without its leading zeros, one digit at least.
RECURSIVE StripZeros(_)
StripZeros(digits) ==
    IF Len(digits) > 1 /\ Head(digits) = 48 THEN StripZeros(Tail(digits)) ELSE digits

\* str::parse::<u64> on a run of digits: Err(PosOverflow) above u64::MAX.
parse_u64_overflows(digits) ==
    LET d == StripZeros(digits)
    IN  \/ Len(d) > Len(U64MaxDigits)
        \/ /\ Len(d) = Len(U64MaxDigits)
           /\ \E i \in 1..Len(d) :
                  /\ d[i] > U64MaxDigits[i]
                  /\ \A j \in 1..(i - 1) : d[j] = U64MaxDigits[j]

\* PING_RE_1 (bang FALSE, "<@([0-9]+)>") and PING_RE_2 (bang TRUE,
\* "<@!([0-9]+)>") tried at index i of s, PING_RE_3 ("\{@([0-9]+)\}") with
\* open 123 and close 125: the index of the last byte of the match, 0 if
\* there is none.
PingEnd(s, i, open, close, bang) ==
    LET from == IF bang THEN i + 3 ELSE i + 2
        e == RunEnd(s, from, 48..57)
    IN  IF /\ from <= Len(s)
           /\ s[i] = open /\ s[i + 1] = 64
           /\ (bang => s[i + 2] = 33)
           /\ e >= from /\ e < Len(s) /\ s[e + 1] = close
        THEN e + 1 ELSE 0

PingDigits(s, i, e, bang) == SubSeq(s, IF bang THEN i + 3 ELSE i + 2, e - 1)

\* A plausible slip: no member is found.
DisplayNameOfNone(ms, digits) == <<>>

\* Lines 261-263: the display name of the first member whose id is the
\* number the digits spell.
RECURSIVE DisplayNameOf(_, _)
DisplayNameOf(ms, digits) ==
    IF ms = <<>> THEN <<>>
    ELSE IF Dec(Head(ms).id) = StripZeros(digits) THEN <<Head(ms).display_name>>
    ELSE DisplayNameOf(Tail(ms), digits)

\* MemberReplacer::replace_append (lines 258-270) on a match that parses.
MemberReplacement(ms, whole, digits) ==
    LET display_name == DisplayNameOf(ms, digits)
    IN  IF display_name # <<>> THEN <<64>> \o display_name[1] ELSE whole

\* replace_all(computed, MemberReplacer { members }), lines 286-292, from
\* index i on.
RECURSIVE ReplaceMembers(_, _, _, _)
ReplaceMembers(s, i, ms, bang) ==
    IF i > Len(s) THEN <<>>
    ELSE LET e == PingEnd(s, i, 60, 62, bang)
         IN  IF e = 0 THEN <<s[i]>> \o ReplaceMembers(s, i + 1, ms, bang)
             ELSE MemberReplacement(ms, SubSeq(s, i, e), PingDigits(s, i, e, bang))
                      \o ReplaceMembers(s, e + 1, ms, bang)

\* Line 259: parse::<u64>().unwrap() panics in one of the matches.
ReplacePanics(s, bang) ==
    \E i \in 1..Len(s) :
        LET e == PingEnd(s, i, 60, 62, bang)
        IN  e # 0 /\ parse_u64_overflows(PingDigits(s, i, e, bang))

\* replace_all with "{@$1}" (line 322; open 60, close 62, to 123, 125) and
\* with "<@$1>" (line 388; open 123, close 125, to 60, 62), from index i on.
RECURSIVE SwapBrackets(_, _, _, _, _, _)
SwapBrackets(s, i, open, close, to_open, to_close) ==
    IF i > Len(s) THEN <<>>
    ELSE LET e == PingEnd(s, i, open, close, FALSE)
         IN  IF e = 0
                 THEN <<s[i]>> \o SwapBrackets(s, i + 1, open, close, to_open, to_close)
             ELSE <<to_open, 64>> \o PingDigits(s, i, e, FALSE) \o <<to_close>>
                      \o SwapBrackets(s, e + 1, open, close, to_open, to_close)

\* Lines 324-385 on one paragraph of plain text: Text(t) pushes t and
\* End(Paragraph) a line feed; no event for an empty text.
MarkdownPlain(s) == IF s = <<>> THEN <<>> ELSE s \o <<10>>

\* The function's outcome: the computed text, or the panic of line 259.
discord_to_irc_processing(message, ms) ==
    LET c1 == ReplaceMembers(message, 1, ms, FALSE)
        c2 == ReplaceMembers(c1, 1, ms, TRUE)
        c3 == SwapBrackets(c2, 1, 60, 62, 123, 125)
        c4 == MarkdownPlain(c3)
        c5 == SwapBrackets(c4, 1, 123, 125, 60, 62)
    IN  IF ReplacePanics(message, FALSE) THEN [kind |-> "panicked", text |-> <<>>]
        ELSE IF ReplacePanics(c1, TRUE) THEN [kind |-> "panicked", text |-> <<>>]
        ELSE [kind |-> "ok", text |-> c5]

\* "hi", and mentions in both spellings: of member 7, of member 7 with
\* leading zeros, of no member, and of a number above u64::MAX.
Nines == [i \in 1..20 |-> 57]
RichTokens ==
    {<<104, 105>>,
     <<60, 64, 55, 62>>, <<60, 64, 33, 55, 62>>,
     <<60, 64, 48, 55, 62>>,
     <<60, 64, 57, 62>>, <<60, 64, 33, 57, 62>>,
     <<60, 64>> \o Nines \o <<62>>}

RichMessages == {Concat(ts) : ts \in SeqsUpTo(RichTokens, MaxTokens)}

\* The Roster of the call: as at startup, or with n2 as well.
Rosters ==
    {Roster0, Append(Roster0, [id |-> 8, display_name |-> N2, avatar_url |-> <<>>])}

RichLineInit ==
    /\ d2i_in \in [message : RichMessages, members : Rosters]
    /\ d2i_out = <<>>
    /\ i2d_in = <<>> /\ i2d_out = <<>>
    /\ ChunkIdle /\ PrefixIdle /\ HandlerIdle /\ RosterIdle /\ QueueIdle

\* Handler::message, line 138: the call under the Roster's lock.
CallDiscordToIrc ==
    /\ d2i_out = <<>>
    /\ d2i_out' = <<discord_to_irc_processing(d2i_in.message, d2i_in.members)>>
    /\ UNCHANGED <<d2i_in, i2d_in, i2d_out, chunkVars, prefixVars, handlerVars,
                   queueVars, rosterVars>>

RichLineNext == CallDiscordToIrc

RichLineSpec == RichLineInit /\ [][RichLineNext]_vars

\* Messages with brace-form text the user typed: "hi", a mention of member
\* 7, a mention of no member, "{@9}" and "{hi}".
BraceTokens ==
    {<<104, 105>>, <<60, 64, 55, 62>>, <<60, 64, 57, 62>>,
     <<123, 64, 57, 125>>, <<123, 104, 105, 125>>}

BraceLineInit ==
    /\ d2i_in \in [message : {Concat(ts) : ts \in SeqsUpTo(BraceTokens, MaxTokens)},
                   members : Rosters]
    /\ d2i_out = <<>>
    /\ i2d_in = <<>> /\ i2d_out = <<>>
    /\ ChunkIdle /\ PrefixIdle /\ HandlerIdle /\ RosterIdle /\ QueueIdle

BraceLineSpec == BraceLineInit /\ [][RichLineNext]_vars

(***************************************************************************)
(* irc_to_discord_processing (irc_discord.rs:233-351) on lines of bold,    *)
(* italic and reset bytes.                                                 *)
(***************************************************************************)
MaxToggles == 4    \* bytes in a Platform-B line

\* \x02 (bold), \x1D (italic), \x0F (reset) and "a".
ToggleBytes == {2, 29, 15, 97}
ToggleLines == SeqsUpTo(ToggleBytes, MaxToggles)

LineRichInit ==
    /\ i2d_in \in ToggleLines
    /\ i2d_out = <<>>
    /\ d2i_in = <<>> /\ d2i_out = <<>>
    /\ ChunkIdle /\ PrefixIdle /\ HandlerIdle /\ RosterIdle /\ QueueIdle

\* irc_loop, lines 126-134: the call; what the loop of lines 327-337 and
\* lines 339-345 push, and the text returned.
CallIrcToDiscord ==
    /\ i2d_out = <<>>
    /\ LET r == irc_to_discord_processing(i2d_in, members, id_cache)
       IN  i2d_out' = <<[pushed |-> r.pushed, text |-> r.out]>>
    /\ UNCHANGED <<i2d_in, d2i_in, d2i_out, chunkVars, prefixVars, handlerVars,
                   queueVars, rosterVars>>

LineRichNext == CallIrcToDiscord

LineRichSpec == LineRichInit /\ [][LineRichNext]_vars

MaxCtl == 3        \* bytes in a line of control bytes

\* Space, bold, italic, colour, "1", ",", underline, reverse-video, reset, "a".
CtlBytes == {32, 2, 29, 3, 49, 44, 31, 22, 15, 97}

ControlLineInit ==
    /\ i2d_in \in SeqsUpTo(CtlBytes, MaxCtl)
    /\ i2d_out = <<>>
    /\ d2i_in = <<>> /\ d2i_out = <<>>
    /\ ChunkIdle /\ PrefixIdle /\ HandlerIdle /\ RosterIdle /\ QueueIdle

ControlLineSpec == ControlLineInit /\ [][LineRichNext]_vars

(***************************************************************************)
(* A message of Platform A relayed to Platform B and the lines sent fed    *)
(* back: discord_to_irc_processing on Markdown with bold and italic spans  *)
(* (discord_irc.rs:324-385), the lines Handler::message sends for it       *)
(* (lines 182-190), and irc_to_discord_processing on each of them.         *)
(* pulldown_cmark is not code of the repository: for the texts below its   *)
(* events are given as CommonMark defines them.                            *)
(***************************************************************************)
MaxSpans == 2      \* spans in a Platform-A message

\* The spans a message is made of, a space between two of them:
\*   P "a"   B "**b**"   I "*i*"   BI "**b *i* c**"   IB "*i **b** c*"
\*   BN "**b" line feed "c**"
SpanKinds == {"P", "B", "I", "BI", "IB", "BN"}

SpanSource(k) ==
    CASE k = "P" -> <<97>>
      [] k = "B" -> <<42, 42, 98, 42, 42>>
      [] k = "I" -> <<42, 105, 42>>
      [] k = "BI" -> <<42, 42, 98, 32, 42, 105, 42, 32, 99, 42, 42>>
      [] k = "IB" -> <<42, 105, 32, 42, 42, 98, 42, 42, 32, 99, 42>>
      [] k = "BN" -> <<42, 42, 98, 10, 99, 42, 42>>

Text(t) == [e |-> "Text", t |-> t]
Start(tag) == [e |-> "Start", t |-> tag]
End(tag) == [e |-> "End", t |-> tag]
SoftBreak == [e |-> "SoftBreak", t |-> <<>>]

\* Parser::new(&computed), line 330, on the source of a span.
SpanEvents(k) ==
    CASE k = "P" -> <<Text(<<97>>)>>
      [] k = "B" -> <<Start("Strong"), Text(<<98>>), End("Strong")>>
      [] k = "I" -> <<Start("Emphasis"), Text(<<105>>), End("Emphasis")>>
      [] k = "BI" -> <<Start("Strong"), Text(<<98, 32>>), Start("Emphasis"),
                       Text(<<105>>), End("Emphasis"), Text(<<32, 99>>), End("Strong")>>
      [] k = "IB" -> <<Start("Emphasis"), Text(<<105, 32>>), Start("Strong"),
                       Text(<<98>>), End("Strong"), Text(<<32, 99>>), End("Emphasis")>>
      [] k = "BN" -> <<Start("Strong"), Text(<<98>>), SoftBreak, Text(<<99>>),
                       End("Strong")>>

RECURSIVE Joined(_, _, _)
Joined(f(_), ks, sep) ==
    IF ks = <<>> THEN <<>>
    ELSE IF Len(ks) = 1 THEN f(ks[1])
    ELSE f(ks[1]) \o sep \o Joined(f, Tail(ks), sep)

\* The content of the message, and the events of the parser for it.
DocSource(ks) == Joined(SpanSource, ks, <<32>>)
DocEvents(ks) ==
    IF ks = <<>> THEN <<>>
    ELSE <<Start("Paragraph")>> \o Joined(SpanEvents, ks, <<Text(<<32>>)>>)
             \o <<End("Paragraph")>>

\* The match of lines 337-381 on one event.
EventBytes(ev1) ==
    IF ev1.e = "Text" THEN ev1.t
    ELSE IF ev1 = Start("Emphasis") THEN <<29>>
    ELSE IF ev1 = Start("Strong") THEN <<2>>
    ELSE IF ev1.e = "SoftBreak" \/ ev1 = End("Paragraph") THEN <<10>>
    ELSE IF ev1.e = "End" THEN <<15>>
    ELSE <<>>

\* The loop of lines 336-382.
EventLoop(evs) == Concat([i \in 1..Len(evs) |-> EventBytes(evs[i])])

\* discord_to_irc_processing on the content of the message ks: the passes
\* over mentions find none, the parser reads what line 322 left.
ProcessDoc(ks, ms) ==
    LET c2 == ReplaceMembers(ReplaceMembers(DocSource(ks), 1, ms, FALSE), 1, ms, TRUE)
        c3 == SwapBrackets(c2, 1, 60, 62, 123, 125)
        parser == IF c3 = DocSource(ks) THEN DocEvents(ks) ELSE <<>>
    IN  SwapBrackets(EventLoop(parser), 1, 123, 125, 60, 62)

Docs == SeqsUpTo(SpanKinds, MaxSpans)

RoundTripInit ==
    /\ d2i_in \in Docs
    /\ d2i_out = <<>>
    /\ i2d_in = <<>> /\ i2d_out = <<>>
    /\ ChunkIdle /\ PrefixIdle /\ HandlerIdle /\ RosterIdle /\ QueueIdle

\* Handler::message, lines 117-190, for a message of n1 that is no reply:
\* the text computed and, of each line sent, what follows the prefix.
RelayToB ==
    /\ d2i_out = <<>>
    /\ LET p == create_prefix(TRUE, N1, FALSE)
           computed == ProcessDoc(d2i_in, members)
           ls == BodyLines(computed, p.prefix, p.limit)
       IN  /\ d2i_out' = <<computed>>
           /\ i2d_in' = [i \in 1..Len(ls) |-> SubSeq(ls[i], Len(p.prefix) + 1, Len(ls[i]))]
    /\ UNCHANGED <<d2i_in, i2d_out, chunkVars, prefixVars, handlerVars, queueVars,
                   rosterVars>>

\* irc_loop, lines 126-134, on each of the lines in turn.
FeedBack ==
    /\ d2i_out # <<>>
    /\ i2d_out = <<>>
    /\ i2d_out' = <<[i \in 1..Len(i2d_in) |->
                        LET r == irc_to_discord_processing(i2d_in[i], members, id_cache)
                        IN  [pushed |-> r.pushed, text |-> r.out]]>>
    /\ UNCHANGED <<d2i_in, d2i_out, i2d_in, chunkVars, prefixVars, handlerVars,
                   queueVars, rosterVars>>

RoundTripNext == RelayToB \/ FeedBack

RoundTripSpec == RoundTripInit /\ [][RoundTripNext]_vars

(***************************************************************************)
(* C1: every chunk StrChunks yields has byte length <= the budget and      *)
(* begins and ends on a code-point boundary of the line.                   *)
(***************************************************************************)
ChunkStart(i) == Len(Concat(SubSeq(chunks, 1, i - 1)))

C1_ChunksFitAndAlign ==
    \A i \in 1..Len(chunks) :
        /\ Len(chunks[i]) <= size
        /\ is_char_boundary(line, ChunkStart(i))
        /\ is_char_boundary(line, ChunkStart(i) + Len(chunks[i]))
        /\ ChunkStart(i) + Len(chunks[i]) <= Len(line)

\* A chunk was cut short of the budget because the budget fell inside a
\* multi-byte code point.
C1_Witness ==
    /\ Len(chunks) >= 2
    /\ Len(chunks[1]) > 0
    /\ Len(chunks[1]) < size
    /\ size < Len(line)
    /\ IsContinuation(line[size + 1])

(***************************************************************************)
(* C2: the chunks StrChunks yields, concatenated in order, are the line;   *)
(* an empty line yields no chunk.  Stated of the whole sequence: the       *)
(* iterator ends, and what it yielded is the line.                         *)
(***************************************************************************)
C2_ConcatIsLine ==
    <>(/\ it_pc = "done"
       /\ Concat(chunks) = line
       /\ (line = <<>> => chunks = <<>>))

(***************************************************************************)
(* C3: the StrChunks sequence is finite: next() returns None after         *)
(* finitely many calls.                                                    *)
(***************************************************************************)
C3_Finite == <>(it_pc = "done")

(***************************************************************************)
(* C4: every PRIVMSG payload Handler::message sends for one message has    *)
(* byte length at most the 400-byte ceiling, and the budgets               *)
(* 400 - len(prefix) do not underflow.                                     *)
(***************************************************************************)
C4_PayloadsFit ==
    /\ \A i \in 1..Len(sent) : Len(sent[i]) <= LineCeiling
    /\ hout # <<>> =>
           /\ hout[1].content_limit >= 0
           /\ hout[1].reply # <<>> => hout[1].reply[1].reply_content_limit >= 0

(***************************************************************************)
(* C5: a reply whose content exceeds the reply budget is truncated and     *)
(* ends with an ellipsis, and the truncated text with its ellipsis is no   *)
(* longer than the reply budget create_prefix computed.                    *)
(***************************************************************************)
EndsWithEllipsis(s) == Len(s) >= 3 /\ SubSeq(s, Len(s) - 2, Len(s)) = Ellipsis

C5_ReplyWithinBudget ==
    \A i \in 1..Len(hout) : \A j \in 1..Len(hout[i].reply) :
        LET r == hout[i].reply[j] IN
        (r.ok /\ Len(r.content) > r.reply_content_limit) =>
            /\ r.to_send # r.content
            /\ EndsWithEllipsis(r.to_send)
            /\ Len(r.to_send) <= r.reply_content_limit

(***************************************************************************)
(* C6: the colour index create_prefix writes into the prefix is            *)
(* (code point of the first char + byte length of the name) mod 12, a      *)
(* number in 0..11, written as two decimal digits.                         *)
(***************************************************************************)
\* The two bytes after "<\x03" in a prefix.
PrefixDigits(p) ==
    LET at == IF p.is_reply THEN Len(Str_reply_to) + 3 ELSE 3
    IN  SubSeq(p.out.prefix, at, at + 1)

C6_ColourIndex ==
    \A i \in 1..Len(pfx) :
        (pfx[i].fetched /\ pfx[i].out.ok) =>
            LET d == PrefixDigits(pfx[i])
                n == (d[1] - 48) * 10 + (d[2] - 48)
            IN  /\ d[1] \in 48..57 /\ d[2] \in 48..57
                /\ n \in 0..11
                /\ n = (nick[1] + Len(Utf8(nick))) % 12

\* A prefix was made for a name whose first char is beyond one byte.
C6_Witness ==
    /\ pfx # <<>>
    /\ pfx[1].fetched /\ pfx[1].out.ok
    /\ nick[1] > 255
    /\ PrefixDigits(pfx[1]) = <<49, 48>>

(***************************************************************************)
(* C7: the consumer makes its calls in the order the loop enqueued the     *)
(* messages: when the call for a message starts, the call of every message *)
(* enqueued before it has completed, or that message was dropped as empty. *)
(***************************************************************************)
C7_FifoCalls ==
    \A k \in 1..Len(hist) :
        hist[k].what = "start" =>
            \A i \in 1..(hist[k].id - 1) :
                \E j \in 1..(k - 1) : hist[j].id = i /\ hist[j].what \in {"done", "drop"}

\* Two messages were in the channel together, and the call of the second
\* started after the call of the first had completed.
C7_Witness ==
    /\ Len(hist) >= 3
    /\ hist[1] = [id |-> 1, what |-> "start"]
    /\ hist[2] = [id |-> 1, what |-> "done"]
    /\ hist[3] = [id |-> 2, what |-> "start"]
    /\ nread = 2
    /\ meta.emojis

(***************************************************************************)
(* C8: unless a call fails or the process is shut down, every enqueued     *)
(* message with non-empty content is eventually given to a network call,   *)
(* and no message is given to more than one.                               *)
(***************************************************************************)
MaxIds == 2 * MaxEvents    \* an event enqueues at most one message per mapped channel

Waiting(i) == \E k \in 1..Len(queue) : queue[k].id = i /\ queue[k].content # <<>>
Started(i) == \E k \in 1..Len(hist) : hist[k] = [id |-> i, what |-> "start"]
StartsOf(i) == Cardinality({k \in 1..Len(hist) : hist[k] = [id |-> i, what |-> "start"]})

C8_DeliveredOnce ==
    /\ [](\A i \in 1..MaxIds : StartsOf(i) <= 1)
    /\ \A i \in 1..MaxIds :
           Waiting(i) ~> (Started(i) \/ task_pc = "err" \/ proc # "running")

\* A message that waited in the channel behind another was given to its
\* call, nothing having failed and the process running.
C8_Witness ==
    /\ proc = "running"
    /\ task_pc = "send"
    /\ cur # <<>> /\ cur[1].id = 2
    /\ \A k \in 1..Len(hist) : hist[k].what # "fail"

(***************************************************************************)
(* C9 as stated: every webhook execute and channel post to Platform A that *)
(* is in flight is the consumer's, and at most one is in flight.           *)
(***************************************************************************)
Posts == {r \in net : r.op \in {"execute", "say"}}

C9_OnlyConsumerPosts ==
    /\ \A r \in Posts : r.by = "msg_task"
    /\ Cardinality(Posts) <= 1

(***************************************************************************)
(* C9 as amended: every execute and post in flight is the consumer's,      *)
(* except the shutdown notice main posts after a termination signal; the   *)
(* consumer has at most one in flight; the loop has none.                  *)
(***************************************************************************)
C9_OnlyConsumerRelays ==
    /\ \A r \in Posts : r.by = "msg_task" \/ (r = MainReq /\ proc = "notice")
    /\ Cardinality({r \in Posts : r.by = "msg_task"}) <= 1
    /\ \A r \in Posts : r.by = "msg_task" => (cur # <<>> /\ r = TaskReq(cur[1]))

\* The consumer's call is in flight while main posts the shutdown notice.
C9_Witness ==
    /\ task_pc = "send"
    /\ proc = "notice"
    /\ Cardinality(Posts) = 2

C12_EmptyBodyNotEnqueued ==
    [][((\E expired \in BOOLEAN, c \in IrcChannels, n \in Nicks :
            Privmsg(expired, c, n, <<>>))
        \/ (FetchDone /\ ev[1].message = <<>>)) => queue' = queue]_vars

(***************************************************************************)
(* C13: an update or a removal for a user id the Roster does not hold      *)
(* leaves the Roster as it was and does not end the handler abnormally.    *)
(***************************************************************************)
MissedId(t) ==
    /\ tasks[t].old # <<>>
    /\ \/ /\ tasks[t].kind = "update" /\ tasks[t].arg # <<>>
          /\ position_by_id(tasks[t].old[1], tasks[t].arg[1].id) = 0
       \/ /\ tasks[t].kind = "removal"
          /\ position_by_id(tasks[t].old[1], tasks[t].arg[1]) = 0

C13_MissIgnored ==
    \A t \in 1..Len(tasks) :
        MissedId(t) =>
            /\ tasks[t].pc # "panicked"
            /\ roster_lock = <<t>> => members = tasks[t].old[1]

(***************************************************************************)
(* C14: a task reads or writes the Roster only while it holds the Mutex,   *)
(* one task at a time, so a reader never sees the Roster between the       *)
(* remove and the push of an update, and what it read stays what the       *)
(* Roster is for as long as it holds the guard.                            *)
(***************************************************************************)
InRoster(t) == tasks[t].pc \in {"held", "removed", "changed", "read"}

C14_RosterUnderLock ==
    /\ \A t \in 1..Len(tasks) : InRoster(t) => roster_lock = <<t>>
    /\ \A t \in 1..Len(tasks) :
           tasks[t].pc = "read" =>
               /\ tasks[t].snap = <<members>>
               /\ \A u \in 1..Len(tasks) : tasks[u].pc # "removed"

\* An update is between its remove and its push while a reader waits for
\* the Mutex.
C14_Witness ==
    \E t, u \in 1..Len(tasks) :
        /\ tasks[t].kind = "update" /\ tasks[t].pc = "removed"
        /\ tasks[u].kind \in Readers /\ tasks[u].pc = "wait"

(***************************************************************************)
(* C15: when an update for an id the Roster holds has pushed the new       *)
(* member, the Roster has as many entries as before, the same set of ids,  *)
(* and every entry other than the one replaced as often as before; an      *)
(* update without a new member leaves the Roster as it was.                *)
(***************************************************************************)
Count(ms, e) == Cardinality({i \in 1..Len(ms) : ms[i] = e})
Ids(ms) == {ms[i].id : i \in 1..Len(ms)}
Entries(ms) == {ms[i] : i \in 1..Len(ms)}

C15_UpdateReplaces ==
    \A t \in 1..Len(tasks) :
        (tasks[t].kind = "update" /\ tasks[t].pc = "changed") =>
            LET old == tasks[t].old[1] IN
            IF tasks[t].arg = <<>> THEN members = old
            ELSE LET new == tasks[t].arg[1]
                     gone == old[position_by_id(old, new.id)]
                 IN  /\ Len(members) = Len(old)
                     /\ Ids(members) = Ids(old)
                     /\ \A e \in Entries(old) \cup Entries(members) :
                            Count(members, e) =
                                Count(old, e) - (IF e = gone THEN 1 ELSE 0)
                                              + (IF e = new THEN 1 ELSE 0)

\* An update has replaced one of two entries by a member that differs
\* from it.
C15_Witness ==
    \E t \in 1..Len(tasks) :
        /\ tasks[t].kind = "update" /\ tasks[t].pc = "changed"
        /\ tasks[t].arg # <<>>
        /\ Len(members) = 2
        /\ tasks[t].arg[1] \notin Entries(tasks[t].old[1])
        /\ members[2] = tasks[t].arg[1]

(***************************************************************************)
(* C16, the Platform-A half: a message in a channel the mapping does not   *)
(* hold sends no line to Platform B, and the handler returns normally.     *)
(* (On the Platform-B side every branch of irc_loop looks the channel up   *)
(* in the mapping before it does anything else.)                           *)
(***************************************************************************)
C16_UnmappedSilent ==
    \A i \in 1..Len(hmsg) :
        ~hmsg[i].mapped => (sent = <<>> /\ hout[i].end = "returned")

(***************************************************************************)
(* C17: a Platform-B message on a mapped channel that is handled to its    *)
(* end puts exactly one message into the channel of the consumer, behind   *)
(* those already there: on a channel with a webhook the Webhook variant    *)
(* with the nickname of the sender and the avatar of a Roster member of    *)
(* that name (none when no such member has one), otherwise the Raw variant *)
(* for the mapped channel id with the text "<nickname>, " and the          *)
(* transcoded content.                                                     *)
(***************************************************************************)
ResolvedAvatars(n) ==
    LET S == {members[i].avatar_url :
                 i \in {j \in 1..Len(members) :
                            members[j].display_name = n /\ members[j].avatar_url # <<>>}}
    IN  IF S = {} THEN {<<>>} ELSE S

IsEntryFor(m, c, n, body) ==
    LET content == irc_to_discord_processing(body, members, id_cache).out
    IN  IF c \in webhooks
            THEN /\ m.kind = "Webhook" /\ m.target = c
                 /\ m.nickname = n
                 /\ m.avatar_url \in ResolvedAvatars(n)
                 /\ m.content = content
        ELSE /\ m.kind = "Raw" /\ m.target = mapping[c]
             /\ m.content = <<60>> \o n \o <<62, 44, 32>> \o content

Kept(old, new) == \A k \in DOMAIN old : k \in DOMAIN new /\ new[k] = old[k]

C18_CachesNeverInvalidated ==
    [][Kept(id_cache, id_cache') /\ Kept(avatar_cache, avatar_cache')]_vars

(***************************************************************************)
(* C18 as amended: an entry of the name -> id cache is never removed and   *)
(* never changes, whatever happens to the Roster; an entry of the          *)
(* name -> avatar cache is kept as it is except that the whole cache is    *)
(* emptied, together with the cached metadata, by the first event read     *)
(* after the ttl has run out.                                              *)
(***************************************************************************)
C18_IdCacheKeptAvatarsUntilExpiry ==
    [][/\ Kept(id_cache, id_cache')
       /\ \/ Kept(avatar_cache, avatar_cache')
          \/ /\ nread' = nread + 1
             /\ avatar_cache' = EmptyMap
             /\ Miss(meta')]_vars

\* n2 was looked up when the Roster had no member of that name and is
\* cached as unresolved; the Roster now has such a member, and both
\* messages that named n2 went out with the name unresolved.
C18_Witness ==
    /\ N2 \in DOMAIN id_cache /\ id_cache[N2] = <<>>
    /\ \E i \in 1..Len(members) : members[i].display_name = N2
    /\ Len(queue) = 2
    /\ \A i \in 1..2 : queue[i].kind = "Webhook" /\ queue[i].content = <<64>> \o N2

(***************************************************************************)
(* C19: the Rich->Line transcoding replaces each user-mention token, in    *)
(* either spelling, whose id is that of a Roster member by "@" and the     *)
(* member's display name, and leaves every token whose id is no member's   *)
(* byte for byte as it was.                                                *)
(***************************************************************************)
\* What the claim says a token becomes.
TokenImage(tok, ms) ==
    LET bang == Len(tok) > 2 /\ tok[3] = 33
        e == PingEnd(tok, 1, 60, 62, bang)
        holders == IF e # Len(tok) THEN {}
                   ELSE {i \in 1..Len(ms) :
                            Dec(ms[i].id) = StripZeros(PingDigits(tok, 1, e, bang))}
    IN  IF holders # {}
            THEN <<64>> \o ms[CHOOSE i \in holders : \A j \in holders : i <= j].display_name
        ELSE tok

C19_MentionsResolved ==
    d2i_out # <<>> =>
        /\ d2i_out[1].kind = "ok"
        /\ \E ts \in SeqsUpTo(RichTokens, MaxTokens) :
               /\ Concat(ts) = d2i_in.message
               /\ d2i_out[1].text =
                      MarkdownPlain(Concat([i \in 1..Len(ts) |->
                                               TokenImage(ts[i], d2i_in.members)]))

\* The same for the messages all of whose mentions spell a u64.
C19_ParsableMentionsResolved ==
    (d2i_out # <<>> /\ ~ReplacePanics(d2i_in.message, FALSE)) => C19_MentionsResolved

\* "<@7><@!9>" has become "@n1<@!9>".
C19_Witness ==
    /\ d2i_in.message = <<60, 64, 55, 62, 60, 64, 33, 57, 62>>
    /\ d2i_out # <<>>
    /\ d2i_out[1].kind = "ok"
    /\ d2i_out[1].text = <<64>> \o N1 \o <<60, 64, 33, 57, 62, 10>>

(***************************************************************************)
(* C20: for any sequence of bold and italic toggle bytes and reset bytes   *)
(* in a line, the Line->Rich transcoding emits an even number of bold      *)
(* markers ("**") and an even number of italic markers ("*"); the text it  *)
(* returns is those markers and the other chars, in the order emitted.     *)
(***************************************************************************)
Markers(pushed, marker) == Cardinality({i \in 1..Len(pushed) : pushed[i] = marker})

C20_MarkersEven ==
    i2d_out # <<>> =>
        /\ Markers(i2d_out[1].pushed, <<42, 42>>) % 2 = 0
        /\ Markers(i2d_out[1].pushed, <<42>>) % 2 = 0
        /\ i2d_out[1].text = StripControl(Concat(i2d_out[1].pushed), 1)

\* Bold, italic, reset: the reset closes bold only, the end of the line
\* closes italic: "**", "*", "**", "*".
C20_Witness ==
    /\ i2d_in = <<2, 29, 15>>
    /\ i2d_out # <<>>
    /\ i2d_out[1].pushed = <<<<42, 42>>, <<42>>, <<42, 42>>, <<42>>>>
    /\ i2d_out[1].text = <<42, 42, 42, 42, 42, 42>>

(***************************************************************************)
(* C21: the text the Line->Rich transcoding returns holds no control byte  *)
(* of Platform B (bold, italic, colour, underline, reverse-video, reset),  *)
(* whatever the line, the lines that start with whitespace included.       *)
(***************************************************************************)
ControlBytes == {2, 29, 3, 31, 22, 15}

HasControl(s) == \E i \in 1..Len(s) : s[i] \in ControlBytes

C21_NoControlByte ==
    i2d_out # <<>> => ~HasControl(i2d_out[1].text)

\* The same for the lines that do not start with whitespace.
C21_NoControlByteOffLiteralPath ==
    (i2d_out # <<>> /\ ~(i2d_in # <<>> /\ i2d_in[1] \in Whitespace))
        => ~HasControl(i2d_out[1].text)

\* "\x03" "1" "a" has become "a".
C21_Witness ==
    /\ i2d_in = <<3, 49, 97>>
    /\ i2d_out # <<>>
    /\ i2d_out[1].text = <<97>>

(***************************************************************************)
(* C22: every JOIN read for a mapped channel puts exactly one join         *)
(* announcement for the mapped Platform-A channel in the queue and adds    *)
(* the nickname to the users of that channel, whether a name list for the  *)
(* channel has been received before or not.                                *)
(***************************************************************************)
JoinAnnounced(c, n) ==
    /\ Len(queue') = Len(queue) + 1
    /\ SubSeq(queue', 1, Len(queue)) = queue
    /\ queue'[Len(queue')] = [Raw(c, <<42>> \o n \o Str_joined) EXCEPT !.id = next_id]
    /\ c \in DOMAIN channel_users'
    /\ \E i \in 1..Len(channel_users'[c]) : channel_users'[c][i] = n

C22_JoinAnnounced ==
    [][\A c \in DOMAIN mapping, n \in Nicks :
           ((\E expired \in BOOLEAN : Join(expired, c, n)) /\ loop_pc' = "read")
               => JoinAnnounced(c, n)]_vars

\* The same for the channels a name list has been received for.
C22_JoinAnnouncedAfterNames ==
    [][\A c \in DOMAIN mapping, n \in Nicks :
           ((\E expired \in BOOLEAN : Join(expired, c, n)) /\ loop_pc' = "read"
            /\ c \in DOMAIN channel_users)
               => JoinAnnounced(c, n)]_vars

\* n2 has joined #a, whose name list was <<n1>>.
C22_Witness ==
    /\ "#a" \in DOMAIN channel_users /\ channel_users["#a"] = <<N1, N2>>
    /\ Len(queue) = 1
    /\ queue[1].kind = "Raw" /\ queue[1].target = mapping["#a"]
    /\ queue[1].content = <<42>> \o N2 \o Str_joined

(***************************************************************************)
(* C23: a QUIT of a nickname puts exactly one quit announcement in the     *)
(* queue for each mapped channel whose users hold the nickname and none    *)
(* for any other channel, and after it the users of no channel hold the    *)
(* nickname.                                                               *)
(***************************************************************************)
Holds(users, n) == \E i \in 1..Len(users) : users[i] = n

C23_QuitAnnounced ==
    [][\A n \in Nicks, reason \in Reasons, order \in Perms(DOMAIN channel_users) :
           ((\E expired \in BOOLEAN : Quit(expired, n, reason, order))
            /\ loop_pc' = "read")
               => LET new == SubSeq(queue', Len(queue) + 1, Len(queue'))
                      due == {c \in DOMAIN mapping :
                                 c \in DOMAIN channel_users /\ Holds(channel_users[c], n)}
                  IN  /\ SubSeq(queue', 1, Len(queue)) = queue
                      /\ Len(new) = Cardinality(due)
                      /\ \A c \in due :
                             \E i \in 1..Len(new) :
                                 /\ new[i].kind = "Raw" /\ new[i].target = mapping[c]
                                 /\ new[i].content = QuitText(n, reason)
                      /\ \A c \in DOMAIN channel_users' : ~Holds(channel_users'[c], n)]_vars

\* The same when every channel with a list of users is mapped and no list
\* holds the nickname twice.
C23_QuitAnnouncedOnce ==
    [][\A n \in Nicks, reason \in Reasons, order \in Perms(DOMAIN channel_users) :
           ((\E expired \in BOOLEAN : Quit(expired, n, reason, order))
            /\ loop_pc' = "read"
            /\ \A c \in DOMAIN channel_users :
                   /\ c \in DOMAIN mapping
                   /\ Cardinality({i \in 1..Len(channel_users[c]) :
                                       channel_users[c][i] = n}) <= 1)
               => LET new == SubSeq(queue', Len(queue) + 1, Len(queue'))
                      due == {c \in DOMAIN mapping :
                                 c \in DOMAIN channel_users /\ Holds(channel_users[c], n)}
                  IN  /\ SubSeq(queue', 1, Len(queue)) = queue
                      /\ Len(new) = Cardinality(due)
                      /\ \A c \in due :
                             \E i \in 1..Len(new) :
                                 /\ new[i].kind = "Raw" /\ new[i].target = mapping[c]
                                 /\ new[i].content = QuitText(n, reason)
                      /\ \A c \in DOMAIN channel_users' : ~Holds(channel_users'[c], n)]_vars

(***************************************************************************)
(* C24: on a termination signal the process posts the shutdown notice to   *)
(* every mapped Platform-A channel before it exits, and it exits with an   *)
(* error exactly when a loop has returned an error or the notice could not *)
(* be posted.                                                              *)
(***************************************************************************)
\* The second half, and that the post of main is awaited for before the
\* process exits.
ExitsAsClaimed ==
       /\ TermSignal => (proc' = "notice" /\ MainReq \in net')
       /\ (proc = "notice" /\ proc' # "notice")
              => /\ MainReq \in net
                 /\ MainReq \notin net'
                 /\ proc' = "exited"
                 /\ \E ok \in BOOLEAN : NoticeAnswered(ok)
       /\ \A ok \in BOOLEAN :
              NoticeAnswered(ok) => (exit_err' = ~ok /\ (ok => channel_id \in noticed'))
       /\ (proc = "running" /\ proc' = "exited")
              => (SelectLoop \/ \E ok \in BOOLEAN : ClientReturned(ok))
       /\ SelectLoop => exit_err' = (loop_pc = "err")
       /\ \A ok \in BOOLEAN : ClientReturned(ok) => exit_err' = ~ok
       /\ (proc # "exited" /\ ~exit_err) => (exit_err' => proc' = "exited")

C24_NoticeBeforeExit == [][ExitsAsClaimed]_vars

C24_Witness ==
    /\ proc = "exited" /\ ~exit_err
    /\ loop_pc = "dropped"
    /\ MainReq \notin net
    /\ channel_id \in noticed

(***************************************************************************)
(* C25: a transport failure in any part of the relay, a failed send of     *)
(* the consumer of the queue included, ends the whole process in the end:  *)
(* the process does not go on running when the delivery to Platform A has  *)
(* stopped.                                                                *)
(***************************************************************************)
C25_FailureEndsProcess ==
    (task_pc = "err" \/ loop_pc = "err") ~> (proc = "exited")

\* The same for the failures of the read loop alone.
C25_LoopFailureEndsProcess ==
    (loop_pc = "err") ~> (proc = "exited")

(***************************************************************************)
(* C26: Rich->Line on a plain-ASCII message with no mention, link or       *)
(* emoji, followed by Line->Rich on each line sent to Platform B, gives    *)
(* the same words with the same bold and italic spans.                     *)
(***************************************************************************)
Styled(ch, b, i) == <<ch, b, i>>

\* The chars of a span that are not spaces, each with whether it is bold
\* and whether it is italic.
SpanStyled(k) ==
    CASE k = "P" -> <<Styled(97, FALSE, FALSE)>>
      [] k = "B" -> <<Styled(98, TRUE, FALSE)>>
      [] k = "I" -> <<Styled(105, FALSE, TRUE)>>
      [] k = "BI" -> <<Styled(98, TRUE, FALSE), Styled(105, TRUE, TRUE),
                       Styled(99, TRUE, FALSE)>>
      [] k = "IB" -> <<Styled(105, FALSE, TRUE), Styled(98, TRUE, TRUE),
                       Styled(99, FALSE, TRUE)>>
      [] k = "BN" -> <<Styled(98, TRUE, FALSE), Styled(99, TRUE, FALSE)>>

\* The same for what the Line->Rich transcoding pushed, "**" and "*"
\* read as opening the span when it is not open and as closing it when it
\* is; the bytes line 347 strips left out.
RECURSIVE PushedStyled(_, _, _, _)
PushedStyled(pushed, k, b, i) ==
    IF k > Len(pushed) THEN <<>>
    ELSE IF pushed[k] = <<42, 42>> THEN PushedStyled(pushed, k + 1, ~b, i)
    ELSE IF pushed[k] = <<42>> THEN PushedStyled(pushed, k + 1, b, ~i)
    ELSE IF pushed[k][1] \in Whitespace \cup {31, 2, 18, 15, 22, 3}
        THEN PushedStyled(pushed, k + 1, b, i)
    ELSE <<Styled(pushed[k][1], b, i)>> \o PushedStyled(pushed, k + 1, b, i)

RoundTrips ==
    Concat([n \in 1..Len(i2d_out[1]) |->
               PushedStyled(i2d_out[1][n].pushed, 1, FALSE, FALSE)])
        = Concat([n \in 1..Len(d2i_in) |-> SpanStyled(d2i_in[n])])

C26_RoundTrip == i2d_out # <<>> => RoundTrips

\* The same for the messages whose bold spans hold no italic span and no
\* line feed.
C26_RoundTripFlat ==
    (i2d_out # <<>> /\ \A n \in 1..Len(d2i_in) : d2i_in[n] \notin {"BI", "BN"})
        => RoundTrips

\* "**b** *i*" was sent as one line and has come back as "**b** *i*".
C26_Witness ==
    /\ d2i_in = <<"B", "I">>
    /\ i2d_in = <<<<2, 98, 15, 32, 29, 105>>>>
    /\ i2d_out # <<>>
    /\ i2d_out[1][1].text = <<42, 42, 98, 42, 42, 32, 42, 105, 42>>

(***************************************************************************)
(* C27: the lines of one relayed Platform-A message are sent to Platform B *)
(* in this order: the reply line, if the message is a reply; the lines of  *)
(* the content in the order of the source, the chunks of each line in      *)
(* order; one line for each attachment, in the order of the attachments.   *)
(***************************************************************************)
\* The content part as the claim has it.
ContentInOrder(computed, prefix, content_limit) ==
    LET rest == SubSeq(computed, Len(raw_prefix) + 1, Len(computed))
        ls == lines(computed)
    IN  IF starts_with(computed, raw_prefix) /\ trim(rest) # <<>>
            THEN <<prefix, trim_matches_0f(trim(rest))>>
        ELSE Concat([j \in 1..Len(ls) |->
                        LET cs == StrChunks_all(ls[j], content_limit)
                        IN  [k \in 1..Len(cs) |-> prefix \o trim_matches_0f(cs[k])]])

C27_LinesInOrder ==
    (hout # <<>> /\ hout[1].end = "done") =>
        LET m == hmsg[1]
            p == hout[1].prefix
            ro == hout[1].reply
            nr == IF m.reply = <<>> THEN 0 ELSE 1
            na == Len(m.attachments)
        IN  /\ Len(sent) >= nr + na
            /\ nr = 1 => sent[1] = ro[1].reply_prefix \o ro[1].to_send
            /\ SubSeq(sent, nr + 1, Len(sent) - na)
                   = ContentInOrder(m.computed, p, hout[1].content_limit)
            /\ \A i \in 1..na : sent[Len(sent) - na + i] = p \o m.attachments[i]

\* A reply with two lines of content and two attachments: reply line, "a",
\* "b", the first attachment, the second.
C27_Witness ==
    /\ hout # <<>> /\ hout[1].end = "done"
    /\ hmsg[1].reply # <<>>
    /\ hmsg[1].computed = <<97, 10, 98>>
    /\ hmsg[1].attachments = <<Url, Url2>>
    /\ Len(sent) = 5
    /\ sent[2] = hout[1].prefix \o <<97>>
    /\ sent[3] = hout[1].prefix \o <<98>>
    /\ sent[5] = hout[1].prefix \o Url2

(***************************************************************************)
(* C28: create_prefix called with is_reply = false returns a prefix that   *)
(* carries no reply text, on every path, the one where the member record   *)
(* of the author cannot be fetched included.                               *)
(***************************************************************************)
\* "(reply", the text both markers start with.
ReplyText == SubSeq(Str_reply, 1, 6)

C28_NoReplyMarker ==
    \A i \in 1..Len(pfx) :
        (~pfx[i].is_reply /\ pfx[i].out.ok) =>
            ~starts_with(pfx[i].out.prefix, ReplyText)

\* The part that holds: with the member record fetched, the marker is there
\* exactly when is_reply is set, and it is "(reply to) ".
C28_MarkerFollowsIsReply ==
    \A i \in 1..Len(pfx) :
        (pfx[i].fetched /\ pfx[i].out.ok) =>
            /\ starts_with(pfx[i].out.prefix, ReplyText) = pfx[i].is_reply
            /\ pfx[i].is_reply => starts_with(pfx[i].out.prefix, Str_reply_to)

\* A prefix made with is_reply = false from a fetched record: it starts
\* with "<".
C28_Witness ==
    /\ pfx # <<>>
    /\ pfx[1].fetched /\ ~pfx[1].is_reply /\ pfx[1].out.ok
    /\ pfx[1].out.prefix[1] = 60

(***************************************************************************)
(* C29: create_prefix returns a prefix and a budget for every non-empty    *)
(* display name, a name of exactly one char included.                      *)
(***************************************************************************)
C29_PrefixForEveryName ==
    \A i \in 1..Len(pfx) :
        nick # <<>> =>
            /\ pfx[i].out.ok
            /\ pfx[i].out.prefix # <<>>
            /\ pfx[i].out.limit = LineCeiling - Len(pfx[i].out.prefix)

\* The part that holds: the same for every name of two chars or more.
C29_PrefixForLongerNames ==
    \A i \in 1..Len(pfx) :
        Len(nick) >= 2 =>
            /\ pfx[i].out.ok
            /\ pfx[i].out.prefix # <<>>
            /\ pfx[i].out.limit = LineCeiling - Len(pfx[i].out.prefix)

\* A name of two chars of several bytes each got its prefix.
C29_Witness ==
    /\ pfx # <<>>
    /\ Len(nick) = 2 /\ nick[1] > 255 /\ nick[2] > 255
    /\ pfx[1].fetched /\ pfx[1].out.ok
    /\ pfx[1].out.limit < LineCeiling - 8

(***************************************************************************)
(* C30: the Roster holds at most one entry for a user id, whatever         *)
(* additions, updates and removals have run, so when a removal has taken   *)
(* its entry out no entry with that id is left.                            *)
(***************************************************************************)
OneEntryPerId(ms) == \A i, j \in 1..Len(ms) : ms[i].id = ms[j].id => i = j

C30_OneEntryPerId ==
    /\ OneEntryPerId(members)
    /\ \A t \in 1..Len(tasks) :
           (tasks[t].kind = "removal" /\ tasks[t].pc = "changed") =>
               position_by_id(members, tasks[t].arg[1]) = 0

\* The part that holds: a handler that found one entry per id leaves one
\* entry per id, unless it is an addition for an id the Roster held
\* already; a removal from such a Roster leaves no entry with the id.
C30_HandlersKeepOne ==
    \A t \in 1..Len(tasks) :
        (/\ tasks[t].pc = "changed"
         /\ OneEntryPerId(tasks[t].old[1])
         /\ ~(/\ tasks[t].kind = "addition"
              /\ position_by_id(tasks[t].old[1], tasks[t].arg[1].id) > 0))
        => /\ OneEntryPerId(members)
           /\ tasks[t].kind = "removal" =>
                  position_by_id(members, tasks[t].arg[1]) = 0

\* A removal took the one entry of its id out of the Roster.
C30_Witness ==
    \E t \in 1..Len(tasks) :
        /\ tasks[t].kind = "removal" /\ tasks[t].pc = "changed"
        /\ position_by_id(tasks[t].old[1], tasks[t].arg[1]) > 0
        /\ OneEntryPerId(tasks[t].old[1])
        /\ position_by_id(members, tasks[t].arg[1]) = 0

(***************************************************************************)
(* C31: whatever name-list replies, JOINs, PARTs, QUITs and NICKs have     *)
(* been read, no nickname is twice in the user list of a channel, so a     *)
(* QUIT leaves no list of a mapped channel with the nickname in it.        *)
(***************************************************************************)
NoNickTwice(users) == \A i, j \in 1..Len(users) : users[i] = users[j] => i = j

C31_NoNickTwice ==
    [][/\ \A c \in DOMAIN channel_users' : NoNickTwice(channel_users'[c])
       /\ \A expired \in BOOLEAN, n \in Nicks, reason \in Reasons,
             order \in Perms(DOMAIN channel_users) :
              Quit(expired, n, reason, order) =>
                  \A c \in DOMAIN channel_users' \cap DOMAIN mapping :
                      position(channel_users'[c], n) = 0]_vars

\* The part that holds: lists without a nickname twice stay so, and a QUIT
\* clears them of its nickname, unless a JOIN is for a nickname the list
\* holds or a NICK changes to one.
Repeats ==
    \/ \E expired \in BOOLEAN, c \in DOMAIN channel_users, n \in Nicks :
           Join(expired, c, n) /\ position(channel_users[c], n) > 0
    \/ \E expired \in BOOLEAN, n \in Nicks, new_nick \in Nicks,
          order \in Perms(DOMAIN channel_users) :
           /\ Nick(expired, n, new_nick, order)
           /\ n # new_nick
           /\ \E c \in DOMAIN channel_users :
                  position(channel_users[c], n) > 0
                      /\ position(channel_users[c], new_nick) > 0

C31_NoNickTwiceWithoutRepeats ==
    [][((\A c \in DOMAIN channel_users : NoNickTwice(channel_users[c])) /\ ~Repeats)
       => /\ \A c \in DOMAIN channel_users' : NoNickTwice(channel_users'[c])
          /\ \A expired \in BOOLEAN, n \in Nicks, reason \in Reasons,
                order \in Perms(DOMAIN channel_users) :
                 Quit(expired, n, reason, order) =>
                     \A c \in DOMAIN channel_users' \cap DOMAIN mapping :
                         position(channel_users'[c], n) = 0]_vars

\* A JOIN made a list of two different nicknames.
C31_Witness ==
    /\ "#a" \in DOMAIN channel_users
    /\ Len(channel_users["#a"]) = 2
    /\ NoNickTwice(channel_users["#a"])
    /\ Len(queue) + Len(hist) > 0

(***************************************************************************)
(* C32: in the toggle pass a reset byte closes all the markup open at that *)
(* point: right after the push made for a reset byte neither bold nor      *)
(* italic is open, whichever of them were open before it.                  *)
(***************************************************************************)
\* The marker piece was pushed an odd number of times for the first k bytes:
\* its style is open after byte k.
Opened(pushed, k, piece) ==
    Cardinality({j \in 1..k : pushed[j] = piece}) % 2 = 1

C32_ResetClosesAll ==
    (i2d_out # <<>> /\ Len(i2d_out[1].pushed) >= Len(i2d_in)) =>
        \A k \in 1..Len(i2d_in) :
            i2d_in[k] = 15 =>
                /\ ~Opened(i2d_out[1].pushed, k, <<42, 42>>)
                /\ ~Opened(i2d_out[1].pushed, k, <<42>>)

\* The part that holds: a reset byte met with at most one of the two open
\* leaves none open.
C32_ResetClosesOne ==
    (i2d_out # <<>> /\ Len(i2d_out[1].pushed) >= Len(i2d_in)) =>
        \A k \in 1..Len(i2d_in) :
            (/\ i2d_in[k] = 15
             /\ ~(/\ Opened(i2d_out[1].pushed, k - 1, <<42, 42>>)
                  /\ Opened(i2d_out[1].pushed, k - 1, <<42>>)))
            => /\ ~Opened(i2d_out[1].pushed, k, <<42, 42>>)
               /\ ~Opened(i2d_out[1].pushed, k, <<42>>)

\* Italic, "a", reset, "a": the reset closed the italic.
C32_Witness ==
    /\ i2d_in = <<29, 97, 15, 97>>
    /\ i2d_out # <<>>
    /\ i2d_out[1].text = <<42, 97, 42, 97>>

(***************************************************************************)
(* C33: the escape of the unresolved mentions and its restore do not show  *)
(* in the text returned: a mention token in angle brackets is in the       *)
(* output only where the input had a mention that was not resolved, and    *)
(* brace-form text the user wrote is returned as it was written.           *)
(***************************************************************************)
C33_EscapeInvisible ==
    d2i_out # <<>> =>
        /\ d2i_out[1].kind = "ok"
        /\ \E ts \in SeqsUpTo(BraceTokens, MaxTokens) :
               /\ Concat(ts) = d2i_in.message
               /\ d2i_out[1].text =
                      MarkdownPlain(Concat([i \in 1..Len(ts) |->
                          IF ts[i][1] = 123 THEN ts[i]
                          ELSE TokenImage(ts[i], d2i_in.members)]))

\* "{@" followed by a digit is in s.
HasBraceMention(s) ==
    \E i \in 1..(Len(s) - 2) : s[i] = 123 /\ s[i + 1] = 64 /\ s[i + 2] \in 48..57

\* The part that holds: the same for the messages without "{@" and a digit.
C33_EscapeInvisibleWithoutBraceMention ==
    (d2i_out # <<>> /\ ~HasBraceMention(d2i_in.message)) => C33_EscapeInvisible

\* "<@9>{hi}" is returned as it was.
C33_Witness ==
    /\ d2i_in.message = <<60, 64, 57, 62, 123, 104, 105, 125>>
    /\ d2i_out # <<>>
    /\ d2i_out[1].text = d2i_in.message \o <<10>>

(***************************************************************************)
(* C34: the lines sent to Platform B for two different Platform-A messages *)
(* do not interleave: the lines of a message are next to each other in     *)
(* what is sent, in their order, however the handlers are scheduled.       *)
(***************************************************************************)
C34_NoInterleaving ==
    /\ \A i, k \in 1..Len(sent) :
           (i < k /\ sent[i][1] = sent[k][1]) =>
               \A j \in i..k : sent[j][1] = sent[i][1]
    /\ \A i \in 1..(Len(sent) - 1) :
           sent[i][1] = sent[i + 1][1] => sent[i + 1][2] = sent[i][2] + 1

\* The handler of the second message has sent its first line, and the
\* handler of the first message, with two lines to send, waits for the
\* Mutex.
C34_Witness ==
    /\ Len(tasks) = 2
    /\ sent = <<LineOf(2, 1)>>
    /\ tasks[2].arg[1] = 2
    /\ tasks[1].arg[1] = 2 /\ tasks[1].pc = "wait"

(***************************************************************************)
(* C35: the handlers, the loop and the consumer do not deadlock: however   *)
(* their acquisitions of the lock of the shared data and of the Mutex of   *)
(* the Roster interleave, a task that waits for one of the two acquires    *)
(* it.                                                                     *)
(***************************************************************************)
C35_NoDeadlock ==
    \A t \in 1..MaxTasks :
        /\ (t <= Len(tasks) /\ tasks[t].pc = "data")
               ~> (t <= Len(tasks) /\ tasks[t].pc \in {"wait", "writing"})
        /\ (t <= Len(tasks) /\ tasks[t].pc = "wait") ~> (roster_lock = <<t>>)

\* A handler holds a read guard and waits for the Mutex, which the loop
\* holds.
C35_Witness ==
    \E t, u \in 1..Len(tasks) :
        /\ tasks[t].kind = "message" /\ tasks[t].pc = "wait"
        /\ tasks[u].kind = "irc_loop" /\ roster_lock = <<u>>

(***************************************************************************)
(* C36: a Platform-A message whose author is the relay's own account or a  *)
(* bot, and a message whose kind is neither regular nor inline reply, has  *)
(* no line sent to Platform B for it.                                      *)
(***************************************************************************)
C36_NoEcho ==
    (/\ hout # <<>>
     /\ \/ hmsg[1].author.id = user_id
        \/ hmsg[1].author.bot
        \/ hmsg[1].kind \notin {"Regular", "InlineReply"})
    => sent = <<>> /\ hout[1].end = "returned"

\* A regular message of a webhook in a mapped channel, with text and an
\* attachment: nothing was sent.
C36_Witness ==
    /\ hout # <<>>
    /\ hmsg[1].kind = "Regular" /\ hmsg[1].mapped /\ hmsg[1].fetched
    /\ hmsg[1].author = [id |-> 2, bot |-> TRUE]
    /\ hmsg[1].nick = <<97, 98>>
    /\ hmsg[1].computed = <<104, 105>>
    /\ hmsg[1].attachments = <<Url>>
    /\ sent = <<>>

(***************************************************************************)
(* C37: between two expiries of the caches the loop fetches the metadata   *)
(* of the guild at most once: a message read while the lists fetched since *)
(* the last expiry are kept, and the ttl has not run out, makes no fetch,  *)
(* whatever the lists hold.                                                *)
(***************************************************************************)
C37_OneFetch ==
    [][\A c \in IrcChannels, n \in Nicks, body \in IrcBodies :
          (Privmsg(FALSE, c, n, body) /\ meta.channels /\ meta.guild)
              => loop_pc' # "fetch"]_vars

\* The part that holds: the same when the emoji list fetched is not empty.
C37_OneFetchWithEmojis ==
    [][\A c \in IrcChannels, n \in Nicks, body \in IrcBodies :
          (Privmsg(FALSE, c, n, body) /\ meta.channels /\ meta.guild /\ meta.emojis)
              => loop_pc' # "fetch"]_vars

\* Two messages were read and enqueued, the second with the lists of the
\* fetch made for the first.
C37_Witness ==
    /\ nread = 2
    /\ meta = [channels |-> TRUE, guild |-> TRUE, emojis |-> TRUE]
    /\ next_id = 3
    /\ queue # <<>> /\ queue[Len(queue)].kind = "Webhook"

====
